---- MODULE Spec2Model ----
(***************************************************************************)
(* Model of the customer-segmentation engine of big-appetite-os            *)
(* (src/pattern_clustering): feature preparation, the run script, cluster  *)
(* characterization and actor assignment.                                  *)
(*                                                                         *)
(* Numbers.  A float is a record [k, n, d]: k = "fin" is the rational n/d  *)
(* (d > 0), k = "nan" is NaN, k = "inf" is +Inf (n = 1) or -Inf (n = -1).  *)
(* Raw actor values are multiples of 1/Scale.  The operators F* follow the *)
(* IEEE rules numpy applies (NaN propagates, Inf - Inf = NaN, ...).        *)
(* Distances and confidences, which need a square root, are fixed-point    *)
(* numbers in units of 1/Milli.                                            *)
(***************************************************************************)
EXTENDS Integers, Sequences, FiniteSets, TLC

\* ------------------------------------------------------------------ bounds
MaxActors == 11        \* longest actor list fed to feature preparation
MaxCohorts == 4        \* most cluster centers offered to an assignment
MaxBatch == 2          \* longest actor list fed to batch assignment
MaxLabelRows == 4      \* longest label vector fed to characterization
MaxLabel == 2          \* largest cluster label in a label vector
MaxResults == 3        \* longest list of stored results fed to a comparison
MaxK == 5              \* largest max_k passed to find_optimal_k

\* ------------------------------------------------------- program constants
Scale == 10            \* raw values are tenths
Milli == 1000          \* fixed-point unit of distances and confidences
MIN_ACTORS == 10       \* min_actors passed by prepare_feature_matrix
MAIN_MIN_ACTORS == 10  \* threshold of the early return in main
MAX_RANKS == 3         \* ranks of the distance order scanned for alternatives
NONE == -1             \* Python's None where a cohort index is expected
INF == 1000000000      \* float('inf') as a fixed-point distance

VARIABLES
    actors,            \* the actor profiles handed to the operation
    feature_config,    \* include_drivers / include_contradiction / include_quantum / normalize
    prepared,          \* outcome of prepare_feature_matrix
    cluster_centers,   \* centroids handed to assign_actor_to_cluster
    assignment,        \* outcome of assign_actor_to_cluster
    assignments,       \* outcome of batch_assign_actors
    labels,            \* label vector handed to characterize_clusters
    cohorts,           \* outcome of characterize_clusters
    driver,            \* who runs the pipeline: main() or a caller of run_all_algorithms
    args,              \* command-line arguments of main(): algorithm, n_clusters
    pc,                \* position of the driver
    results,           \* ClusteringResults collected from the algorithms
    invoked,           \* clustering algorithms invoked so far, in order
    comparison,        \* outcome of compare_clustering_results
    best_result,       \* the ClusteringResult main() goes on with
    validation_report, \* outcome of validate_clustering in main()
    saved,             \* outcome of the save_* calls of main()
    failure,           \* the exception that ended the driver, "none" if none
    call,              \* a library function called on its own, with its arguments
    call_result,       \* what that call returned
    kmeans             \* the KMeans estimator while it fits: its runs and its iterations

vars == <<actors, feature_config, prepared, cluster_centers, assignment,
          assignments, labels, cohorts, driver, args, pc, results, invoked,
          comparison, best_result, validation_report, saved, failure,
          call, call_result, kmeans>>

\* ------------------------------------------------------------------ floats
Fin(n, d) == [k |-> "fin", n |-> n, d |-> d]
NaN == [k |-> "nan", n |-> 0, d |-> 1]
PosInf == [k |-> "inf", n |-> 1, d |-> 1]
NegInf == [k |-> "inf", n |-> -1, d |-> 1]
Raw(v) == Fin(v, Scale)
Half == Fin(1, 2)

IsNaN(x) == x.k = "nan"
IsInf(x) == x.k = "inf"
IsFinite(x) == x.k = "fin"

\* a < b on floats: FALSE as soon as one side is NaN
FLt(a, b) ==
    IF IsNaN(a) \/ IsNaN(b) THEN FALSE
    ELSE IF IsInf(a) THEN a.n < 0 /\ ~(IsInf(b) /\ b.n < 0)
    ELSE IF IsInf(b) THEN b.n > 0
    ELSE a.n * b.d < b.n * a.d

\* a == b on floats
FEq(a, b) ==
    IF IsNaN(a) \/ IsNaN(b) THEN FALSE
    ELSE IF IsInf(a) \/ IsInf(b) THEN IsInf(a) /\ IsInf(b) /\ a.n = b.n
    ELSE a.n * b.d = b.n * a.d

FNeg(a) == IF IsFinite(a) THEN Fin(0 - a.n, a.d)
           ELSE IF IsInf(a) THEN [a EXCEPT !.n = 0 - a.n] ELSE NaN

FSub(a, b) ==
    IF IsNaN(a) \/ IsNaN(b) THEN NaN
    ELSE IF IsInf(a) /\ IsInf(b) THEN (IF a.n = b.n THEN NaN ELSE a)
    ELSE IF IsInf(a) THEN a
    ELSE IF IsInf(b) THEN FNeg(b)
    ELSE Fin(a.n * b.d - b.n * a.d, a.d * b.d)

Sign(n) == IF n > 0 THEN 1 ELSE IF n < 0 THEN -1 ELSE 0

FDiv(a, b) ==
    IF IsNaN(a) \/ IsNaN(b) THEN NaN
    ELSE IF IsInf(a) /\ IsInf(b) THEN NaN
    ELSE IF IsInf(b) THEN Fin(0, 1)
    ELSE IF IsInf(a) THEN (IF Sign(b.n) * a.n < 0 THEN NegInf ELSE PosInf)
    ELSE IF b.n = 0 THEN (IF a.n = 0 THEN NaN
                          ELSE IF a.n > 0 THEN PosInf ELSE NegInf)
    ELSE Fin(a.n * b.d * Sign(b.n), a.d * b.n * Sign(b.n))

\* 0 <= x <= 1
InUnit(x) == IsFinite(x) /\ 0 <= x.n /\ x.n <= x.d

Column(m, j) == [i \in 1..Len(m) |-> m[i][j]]

RECURSIVE MinFrom(_, _, _)
MinFrom(col, i, best) ==
    IF i > Len(col) THEN best
    ELSE MinFrom(col, i + 1, IF FLt(col[i], best) THEN col[i] ELSE best)

RECURSIVE MaxFrom(_, _, _)
MaxFrom(col, i, best) ==
    IF i > Len(col) THEN best
    ELSE MaxFrom(col, i + 1, IF FLt(best, col[i]) THEN col[i] ELSE best)

HasNaN(col) == \E i \in 1..Len(col) : IsNaN(col[i])

\* np.min / np.max of a non-empty column: NaN as soon as one entry is NaN
NpMin(col) == IF HasNaN(col) THEN NaN ELSE MinFrom(col, 2, col[1])
NpMax(col) == IF HasNaN(col) THEN NaN ELSE MaxFrom(col, 2, col[1])

AllEqual(col) == \A i \in 1..Len(col) : FEq(col[i], col[1])

\* a multiple of 1/2: sums of such values are exact in binary floating point
Dyadic(x) == IsFinite(x) /\ (2 * x.n) % x.d = 0

\* np.std(col) == 0.  The standard deviation of a column holding NaN or Inf
\* is NaN.  Of a constant column it is exactly 0 when the sum is exact;
\* otherwise the rounding of the mean decides ("rounds": the deviation
\* comes out as a tiny non-zero number).
StdIsZero(col, rounds) ==
    /\ \A i \in 1..Len(col) : IsFinite(col[i])
    /\ AllEqual(col)
    /\ (Dyadic(col[1]) \/ ~rounds)

\* ----------------------------------------------------------- actor profiles
Drivers == <<"Safety", "Connection", "Status", "Growth", "Freedom", "Purpose">>
DriverSet == {Drivers[i] : i \in 1..Len(Drivers)}

\* max(driver_values, key=driver_values.get): the first driver, in dict
\* order, holding the largest value
DominantDriver(dist) ==
    Drivers[CHOOSE i \in 1..Len(Drivers) :
        /\ \A j \in 1..Len(Drivers) : ~FLt(dist[Drivers[i]], dist[Drivers[j]])
        /\ \A j \in 1..(i - 1) : FLt(dist[Drivers[j]], dist[Drivers[i]])]

Dist(sa, co, st, gr, fr, pu) ==
    [x \in DriverSet |->
        IF x = "Safety" THEN Raw(sa) ELSE IF x = "Connection" THEN Raw(co)
        ELSE IF x = "Status" THEN Raw(st) ELSE IF x = "Growth" THEN Raw(gr)
        ELSE IF x = "Freedom" THEN Raw(fr) ELSE Raw(pu)]

Profile(dist, contradiction, superposition, coherence) ==
    [driver_distribution |-> dist, contradiction_score |-> contradiction,
     superposition_detected |-> superposition, coherence |-> coherence]

\* profiles inside the ranges of the data model
SafetyProfile == Profile(Dist(8, 0, 0, 0, 0, 2), Raw(2), FALSE, Raw(5))
StatusProfile == Profile(Dist(0, 2, 8, 0, 0, 0), Raw(7), TRUE, Raw(10))
MixedProfile == Profile(Dist(4, 0, 0, 3, 3, 0), Raw(5), FALSE, Raw(5))
\* profiles the cleaning step (float(...) without a range check) lets through
NaNProfile == Profile(Dist(8, 0, 0, 0, 0, 2), Raw(2), FALSE, NaN)
PosInfProfile == Profile(Dist(0, 2, 8, 0, 0, 0), PosInf, TRUE, Raw(10))
NegInfProfile == Profile(Dist(8, 0, 0, 0, 0, 2), NegInf, FALSE, Raw(5))
WideProfile == Profile(Dist(4, 0, 0, 3, 3, 0), Raw(5), FALSE, Raw(30))

BaseProfiles == {SafetyProfile, StatusProfile, MixedProfile}
FiniteProfiles == BaseProfiles \cup {WideProfile}
Profiles == FiniteProfiles \cup {NaNProfile, PosInfProfile, NegInfProfile}
ThirdProfiles == {MixedProfile, WideProfile}

\* a cleaned actor profile (_clean_actor_profile); actor ids are positions
Actor(id, p) ==
    [actor_id |-> id,
     driver_distribution |-> p.driver_distribution,
     dominant_driver |-> DominantDriver(p.driver_distribution),
     contradiction_score |-> p.contradiction_score,
     superposition_detected |-> p.superposition_detected,
     coherence |-> p.coherence]

\* the actor lists tried: n actors cycling through the profiles p, q, r
ActorList(n, p, q, r) ==
    [i \in 1..n |-> Actor(i, IF i % 3 = 1 THEN p ELSE IF i % 3 = 2 THEN q ELSE r)]

Configs ==
    [include_drivers : BOOLEAN, include_contradiction : BOOLEAN,
     include_quantum : BOOLEAN, normalize : BOOLEAN]

\* --------------------------------------------------- feature_preparation.py
\* the row prepare_feature_matrix builds for one actor
RowFeatures(actor, cfg) ==
    (IF cfg.include_drivers
        THEN [i \in 1..Len(Drivers) |-> actor.driver_distribution[Drivers[i]]]
        ELSE <<>>)
    \o (IF cfg.include_contradiction THEN <<actor.contradiction_score>> ELSE <<>>)
    \o (IF cfg.include_quantum
        THEN <<IF actor.superposition_detected THEN Raw(Scale) ELSE Raw(0),
               actor.coherence>>
        ELSE <<>>)

\* the same names with the contradiction column placed first
FeatureNames_ContradictionFirst(cfg) ==
    (IF cfg.include_contradiction THEN <<"contradiction_score">> ELSE <<>>)
    \o (IF cfg.include_drivers THEN Drivers ELSE <<>>)
    \o (IF cfg.include_quantum THEN <<"superposition_strength", "coherence">> ELSE <<>>)

FeatureNames(cfg) ==
    (IF cfg.include_drivers THEN Drivers ELSE <<>>)
    \o (IF cfg.include_contradiction THEN <<"contradiction_score">> ELSE <<>>)
    \o (IF cfg.include_quantum THEN <<"superposition_strength", "coherence">> ELSE <<>>)

\* one column of _normalize_features
NormalizeColumn(col, rounds) ==
    IF StdIsZero(col, rounds) THEN col
    ELSE LET min_val == NpMin(col)
             max_val == NpMax(col)
         IN  IF FLt(min_val, max_val)
             THEN [i \in 1..Len(col) |->
                      FDiv(FSub(col[i], min_val), FSub(max_val, min_val))]
             ELSE [i \in 1..Len(col) |-> Half]

_normalize_features(features, feature_names, rounds) ==
    [i \in 1..Len(features) |->
        [j \in 1..Len(features[i]) |->
            IF j <= Len(feature_names)
            THEN NormalizeColumn(Column(features, j), rounds)[i]
            ELSE features[i][j]]]

Ok(value) == [status |-> "ok", error |-> "none", value |-> value]
Raised(error) == [status |-> "raised", error |-> error, value |-> <<>>]

NumColumns(features) == IF Len(features) = 0 THEN 0 ELSE Len(features[1])

\* validate_feature_matrix: raises, or returns after reporting the constant
\* columns (0-based, as it prints them)
validate_feature_matrix(features, min_actors, rounds) ==
    LET n_actors == Len(features)
        n_features == NumColumns(features)
        cells == {<<i, j>> \in (1..n_actors) \X (1..n_features) : TRUE}
    IN  IF n_actors < min_actors THEN Raised("Insufficient actors")
        ELSE IF n_features = 0 THEN Raised("No features found")
        ELSE IF \E c \in cells : IsNaN(features[c[1]][c[2]])
            THEN Raised("NaN values in feature matrix")
        ELSE IF \E c \in cells : IsInf(features[c[1]][c[2]])
            THEN Raised("infinite values in feature matrix")
        ELSE Ok([constant_features |->
                    {j - 1 : j \in {c \in 1..n_features :
                                      StdIsZero(Column(features, c), rounds)}}])

\* prepare_feature_matrix
prepare_feature_matrix(actor_list, cfg, rounds) ==
    IF Len(actor_list) = 0 THEN Raised("No actors provided for feature preparation")
    ELSE LET feature_data == [i \in 1..Len(actor_list) |-> RowFeatures(actor_list[i], cfg)]
             actor_ids == [i \in 1..Len(actor_list) |-> actor_list[i].actor_id]
             feature_names == FeatureNames(cfg)
             features == IF cfg.normalize
                         THEN _normalize_features(feature_data, feature_names, rounds)
                         ELSE feature_data
             validation == validate_feature_matrix(features, MIN_ACTORS, rounds)
         IN  IF validation.status = "raised" THEN Raised(validation.error)
             ELSE Ok([features |-> features, actor_ids |-> actor_ids,
                      feature_names |-> feature_names,
                      constant_features |-> validation.value.constant_features])

\* ------------------------------------------------------------ assignment.py
Max(a, b) == IF a >= b THEN a ELSE b
Min(a, b) == IF a <= b THEN a ELSE b

\* floor of the square root
RECURSIVE ISqrt(_)
ISqrt(n) ==
    IF n < 2 THEN n
    ELSE LET s == 2 * ISqrt(n \div 4)
         IN  IF (s + 1) * (s + 1) <= n THEN s + 1 ELSE s

\* a finite float as a fixed-point number
ToMilli(x) == (x.n * Milli) \div x.d

RECURSIVE SumSeq(_)
SumSeq(q) == IF q = <<>> THEN 0 ELSE q[1] + SumSeq(Tail(q))

\* the Euclidean distance of two vectors of the same length (cdist, norm)
Euclid(x, c) ==
    ISqrt(SumSeq([j \in 1..Len(x) |->
                    (ToMilli(x[j]) - ToMilli(c[j])) * (ToMilli(x[j]) - ToMilli(c[j]))]))

\* _extract_actor_features: the feature vector, or None when the actor
\* record cannot be read (the lookup of driver_distribution raises)
_extract_actor_features(actor, cfg) ==
    IF cfg.include_drivers /\ "driver_distribution" \notin DOMAIN actor
    THEN [none |-> TRUE, features |-> <<>>]
    ELSE [none |-> FALSE, features |-> RowFeatures(actor, cfg)]

\* the same formula without the clamp at 0
ConfidenceOf_Unclamped(distance, n_features) ==
    IF n_features = 0 THEN 0
    ELSE Milli - (distance * Milli) \div ISqrt(n_features * Milli * Milli)

\* max(0, 1 - distance / sqrt(n_features)); with no feature the quotient is
\* NaN and Python's max(0, NaN) is 0
ConfidenceOf(distance, n_features) ==
    IF n_features = 0 THEN 0
    ELSE Max(0, Milli - (distance * Milli) \div ISqrt(n_features * Milli * Milli))

\* calculate_assignment_confidence; an exception (vectors of different
\* lengths) or a NaN quotient gives 0
calculate_assignment_confidence(actor_features, cluster_center) ==
    IF Len(actor_features) # Len(cluster_center) \/ Len(actor_features) = 0 THEN 0
    ELSE LET distance == Euclid(actor_features, cluster_center)
             max_possible_distance == ISqrt(Len(actor_features) * Milli * Milli)
         IN  Max(0, Milli - (distance * Milli) \div max_possible_distance)

\* the index of the greatest value instead of the least
ArgMin_Greatest(d) ==
    (CHOOSE i \in 1..Len(d) :
        /\ \A j \in 1..Len(d) : d[i] >= d[j]
        /\ \A j \in 1..(i - 1) : d[j] < d[i]) - 1

\* np.argmin: the first 0-based index holding the least value
ArgMin(d) ==
    (CHOOSE i \in 1..Len(d) :
        /\ \A j \in 1..Len(d) : d[i] <= d[j]
        /\ \A j \in 1..(i - 1) : d[j] > d[i]) - 1

\* np.argsort: the 0-based indices in order of value, equal values in index
\* order
ArgSort(d) ==
    [r \in 1..Len(d) |->
        (CHOOSE i \in 1..Len(d) :
            Cardinality({j \in 1..Len(d) :
                d[j] < d[i] \/ (d[j] = d[i] /\ j < i)}) = r - 1) - 1]

RECURSIVE Alternatives(_, _, _, _, _)
\* the loop over the first ranks of the distance order; i is the rank
Alternatives(i, distances, sorted_indices, nearest_cluster_idx, n_features) ==
    IF i >= Min(MAX_RANKS, Len(sorted_indices)) THEN <<>>
    ELSE (IF i # nearest_cluster_idx
          THEN LET alt_idx == sorted_indices[i + 1]
               IN  <<[cohort_id |-> alt_idx,
                      distance |-> distances[alt_idx + 1],
                      confidence |-> ConfidenceOf(distances[alt_idx + 1], n_features)]>>
          ELSE <<>>)
         \o Alternatives(i + 1, distances, sorted_indices, nearest_cluster_idx, n_features)

AssignmentError(error) ==
    [cohort_id |-> NONE, assigned_cohort_id |-> NONE, confidence |-> 0,
     distance_to_center |-> INF, alternative_cohorts |-> <<>>, error |-> error]

\* assign_actor_to_cluster.  cdist raises when there is no center or the
\* centers have another number of columns than the actor's vector; the
\* handler turns that into an error record.
assign_actor_to_cluster(actor, centers, cfg) ==
    LET extracted == _extract_actor_features(actor, cfg)
        actor_features == extracted.features
    IN  IF extracted.none THEN AssignmentError("Failed to extract features")
        ELSE IF Len(centers) = 0 \/ Len(centers[1]) # Len(actor_features)
        THEN AssignmentError("exception")
        ELSE LET distances == [j \in 1..Len(centers) |-> Euclid(actor_features, centers[j])]
                 nearest_cluster_idx == ArgMin(distances)
                 min_distance == distances[nearest_cluster_idx + 1]
             IN  [cohort_id |-> nearest_cluster_idx,
                  assigned_cohort_id |-> nearest_cluster_idx,
                  confidence |-> ConfidenceOf(min_distance, Len(actor_features)),
                  distance_to_center |-> min_distance,
                  alternative_cohorts |->
                      Alternatives(0, distances, ArgSort(distances),
                                   nearest_cluster_idx, Len(actor_features)),
                  error |-> "none"]

\* batch_assign_actors: the cluster loop does nothing and every actor gets
\* the same placeholder record
batch_assign_actors(actor_list, clusters) ==
    [i \in 1..Len(actor_list) |->
        [actor_id |-> actor_list[i].actor_id, assigned_cohort_id |-> NONE,
         confidence |-> 0, distance_to_center |-> INF,
         alternative_cohorts |-> <<>>, error |-> "Assignment not implemented yet"]]

\* the same report with the medium bucket open at 0.4
validate_assignment_quality_OpenMedium(assignment_list) ==
    LET n == Len(assignment_list)
        confidences == [i \in 1..n |-> assignment_list[i].confidence]
        successful_assignments ==
            Cardinality({i \in 1..n : assignment_list[i].assigned_cohort_id # NONE})
        avg_confidence == Fin(SumSeq(confidences), Milli * n)
    IN  IF n = 0 THEN [error |-> "No assignments to validate"]
        ELSE [error |-> "none",
              total_assignments |-> n,
              successful_assignments |-> successful_assignments,
              success_rate |-> Fin(successful_assignments, n),
              avg_confidence |-> avg_confidence,
              confidence_distribution |->
                  [high |-> Cardinality({i \in 1..n : confidences[i] > 700}),
                   medium |-> Cardinality({i \in 1..n : 400 < confidences[i]
                                                          /\ confidences[i] <= 700}),
                   low |-> Cardinality({i \in 1..n : confidences[i] < 400})],
              quality_score |-> Fin(6 * successful_assignments * Milli + 4 * SumSeq(confidences),
                                    10 * Milli * n)]

\* validate_assignment_quality and _calculate_quality_score (the distance
\* statistics are left out); confidences are in units of 1/Milli, the rates
\* and the score exact fractions:
\* 0.6 * successful / n + 0.4 * sum(confidences) / n
validate_assignment_quality(assignment_list) ==
    LET n == Len(assignment_list)
        confidences == [i \in 1..n |-> assignment_list[i].confidence]
        successful_assignments ==
            Cardinality({i \in 1..n : assignment_list[i].assigned_cohort_id # NONE})
        avg_confidence == Fin(SumSeq(confidences), Milli * n)
    IN  IF n = 0 THEN [error |-> "No assignments to validate"]
        ELSE [error |-> "none",
              total_assignments |-> n,
              successful_assignments |-> successful_assignments,
              success_rate |-> Fin(successful_assignments, n),
              avg_confidence |-> avg_confidence,
              confidence_distribution |->
                  [high |-> Cardinality({i \in 1..n : confidences[i] > 700}),
                   medium |-> Cardinality({i \in 1..n : 400 <= confidences[i]
                                                          /\ confidences[i] <= 700}),
                   low |-> Cardinality({i \in 1..n : confidences[i] < 400})],
              quality_score |-> Fin(6 * successful_assignments * Milli + 4 * SumSeq(confidences),
                                    10 * Milli * n)]

\* ------------------------------------------------------- characterization.py
\* np.unique(labels) as a set
Unique(label_vector) == {label_vector[i] : i \in 1..Len(label_vector)}

\* the positions carrying a label, in input order
RECURSIVE Members(_, _, _)
Members(label_vector, cluster_id, i) ==
    IF i > Len(label_vector) THEN <<>>
    ELSE (IF label_vector[i] = cluster_id THEN <<i>> ELSE <<>>)
         \o Members(label_vector, cluster_id, i + 1)

\* np.mean of a non-empty list of floats that share one denominator
Mean(values) ==
    IF \A i \in 1..Len(values) : IsFinite(values[i])
    THEN Fin(SumSeq([i \in 1..Len(values) |-> values[i].n]), values[1].d * Len(values))
    ELSE IF (\E i \in 1..Len(values) : IsNaN(values[i]))
            \/ (\E i, j \in 1..Len(values) :
                   IsInf(values[i]) /\ IsInf(values[j]) /\ values[i].n # values[j].n)
         THEN NaN
    ELSE values[CHOOSE i \in 1..Len(values) : IsInf(values[i])]

\* _calculate_driver_profile: the mean of each driver over the cluster
_calculate_driver_profile(cluster_actors) ==
    [x \in DriverSet |->
        Mean([i \in 1..Len(cluster_actors) |-> cluster_actors[i].driver_distribution[x]])]

\* _calculate_cluster_characteristics and _analyze_quantum_states (the
\* entries used further on).  Counter.most_common(1): the most frequent
\* dominant driver, the first one met among equally frequent ones.
_calculate_cluster_characteristics(cluster_actors, cluster_features) ==
    LET n == Len(cluster_actors)
        count(x) == Cardinality({i \in 1..n : cluster_actors[i].dominant_driver = x})
        first == CHOOSE i \in 1..n :
                    /\ \A j \in 1..n : count(cluster_actors[j].dominant_driver)
                                         <= count(cluster_actors[i].dominant_driver)
                    /\ \A j \in 1..(i - 1) : count(cluster_actors[j].dominant_driver)
                                               < count(cluster_actors[i].dominant_driver)
    IN  [dominant_driver |-> cluster_actors[first].dominant_driver,
         avg_contradiction |-> Mean([i \in 1..n |-> cluster_actors[i].contradiction_score]),
         superposition_prevalence |->
             Fin(100 * Cardinality({i \in 1..n : cluster_actors[i].superposition_detected}), n)]

\* list(set(items)): the distinct items in the order the set iterates them.
\* The order follows the string hashes, which the interpreter randomizes per
\* process; two of the possible orders are modelled.
ListOfSet(items, hash_seed) ==
    LET firsts == {i \in 1..Len(items) : \A j \in 1..(i - 1) : items[j] # items[i]}
        n == Cardinality(firsts)
        distinct == [r \in 1..n |->
                        items[CHOOSE i \in firsts : Cardinality({j \in firsts : j < i}) = r - 1]]
    IN  IF hash_seed = 0 THEN distinct ELSE [r \in 1..n |-> distinct[n + 1 - r]]

driver_themes ==
    [x \in DriverSet |->
        IF x = "Safety" THEN <<"security", "reliability", "trust", "protection">>
        ELSE IF x = "Connection" THEN <<"community", "relationships", "belonging", "social">>
        ELSE IF x = "Status" THEN <<"prestige", "recognition", "exclusivity", "achievement">>
        ELSE IF x = "Growth" THEN <<"learning", "development", "improvement", "progress">>
        ELSE IF x = "Freedom" THEN <<"independence", "choice", "flexibility", "autonomy">>
        ELSE <<"meaning", "impact", "contribution", "values">>]

RECURSIVE ThemesFrom(_, _)
\* the loop of _get_messaging_themes over the drivers, in dict order
ThemesFrom(driver_profile, i) ==
    IF i > Len(Drivers) THEN <<>>
    ELSE (IF FLt(Fin(3, 10), driver_profile[Drivers[i]]) THEN driver_themes[Drivers[i]]
          ELSE <<>>)
         \o ThemesFrom(driver_profile, i + 1)

\* _get_messaging_themes: list(set(themes))[:5]
_get_messaging_themes(driver_profile, hash_seed) ==
    LET unique_themes == ListOfSet(ThemesFrom(driver_profile, 1), hash_seed)
    IN  SubSeq(unique_themes, 1, Min(5, Len(unique_themes)))

\* _get_messaging_channels
_get_messaging_channels(characteristics, hash_seed) ==
    ListOfSet(
        <<"Email", "Website">>
        \o (IF FLt(Fin(20, 1), characteristics.superposition_prevalence)
            THEN <<"Social Media", "Mobile App">> ELSE <<>>)
        \o (IF FLt(Fin(5, 10), characteristics.avg_contradiction)
            THEN <<"Personal Consultation", "Phone">> ELSE <<>>)
        \o (IF characteristics.dominant_driver = "Connection"
            THEN <<"Social Media", "Community Forums">>
            ELSE IF characteristics.dominant_driver = "Status"
            THEN <<"Premium Channels", "Exclusive Events">> ELSE <<>>),
        hash_seed)

\* the same choice taking the 3 actors farthest from the mean feature vector
_find_notable_actors_Farthest(cluster_actors, cluster_features) ==
    LET n == Len(cluster_actors)
        centroid == [j \in 1..Len(cluster_features[1]) |->
                        Fin(SumSeq([i \in 1..n |-> ToMilli(cluster_features[i][j])]), Milli * n)]
        distance(i) == Euclid(cluster_features[i], centroid)
        ranked == [r \in 1..n |->
                      CHOOSE i \in 1..n :
                          Cardinality({j \in 1..n :
                              distance(j) > distance(i)
                              \/ (distance(j) = distance(i) /\ j < i)}) = r - 1]
    IN  IF n < 3 THEN [i \in 1..n |-> cluster_actors[i].actor_id]
        ELSE [r \in 1..3 |-> cluster_actors[ranked[r]].actor_id]

\* _find_notable_actors: every actor of a cluster of fewer than 3, else the
\* ids of the 3 actors nearest the mean feature vector (sort by distance,
\* stable)
_find_notable_actors(cluster_actors, cluster_features) ==
    LET n == Len(cluster_actors)
        centroid == [j \in 1..Len(cluster_features[1]) |->
                        Fin(SumSeq([i \in 1..n |-> ToMilli(cluster_features[i][j])]), Milli * n)]
        distance(i) == Euclid(cluster_features[i], centroid)
        ranked == [r \in 1..n |->
                      CHOOSE i \in 1..n :
                          Cardinality({j \in 1..n :
                              distance(j) < distance(i)
                              \/ (distance(j) = distance(i) /\ j < i)}) = r - 1]
    IN  IF n < 3 THEN [i \in 1..n |-> cluster_actors[i].actor_id]
        ELSE [r \in 1..3 |-> cluster_actors[ranked[r]].actor_id]

\* the same rules with the thresholds included
_generate_cohort_name_Inclusive(driver_profile, characteristics) ==
    LET dominant_driver == DominantDriver(driver_profile)
        dominant_value == driver_profile[dominant_driver]
    IN  IF ~FLt(characteristics.avg_contradiction, Fin(6, 10))
        THEN "High-Contradiction " \o dominant_driver
        ELSE IF ~FLt(dominant_value, Fin(7, 10)) THEN dominant_driver \o "-Focused"
        ELSE IF ~FLt(characteristics.superposition_prevalence, Fin(30, 1))
             THEN "Quantum " \o dominant_driver
        ELSE "Balanced " \o dominant_driver

\* _generate_cohort_name
_generate_cohort_name(driver_profile, characteristics) ==
    LET dominant_driver == DominantDriver(driver_profile)
        dominant_value == driver_profile[dominant_driver]
    IN  IF FLt(Fin(6, 10), characteristics.avg_contradiction)
        THEN "High-Contradiction " \o dominant_driver
        ELSE IF FLt(Fin(7, 10), dominant_value) THEN dominant_driver \o "-Focused"
        ELSE IF FLt(Fin(30, 1), characteristics.superposition_prevalence)
             THEN "Quantum " \o dominant_driver
        ELSE "Balanced " \o dominant_driver

\* sorted(driver_profile.items(), key=value, reverse=True): the drivers by
\* falling mean value, equal values in dict order
SortedDrivers(driver_profile) ==
    [r \in 1..Len(Drivers) |->
        Drivers[CHOOSE i \in 1..Len(Drivers) :
            Cardinality({j \in 1..Len(Drivers) :
                \/ FLt(driver_profile[Drivers[i]], driver_profile[Drivers[j]])
                \/ (FEq(driver_profile[Drivers[j]], driver_profile[Drivers[i]]) /\ j < i)})
              = r - 1]]

RECURSIVE TopDriversFrom(_, _, _)
\* [driver for driver, value in sorted_drivers[:3] if value > 0.2]
TopDriversFrom(driver_profile, sorted_drivers, r) ==
    IF r > 3 THEN <<>>
    ELSE (IF FLt(Fin(2, 10), driver_profile[sorted_drivers[r]]) THEN <<sorted_drivers[r]>>
          ELSE <<>>)
         \o TopDriversFrom(driver_profile, sorted_drivers, r + 1)

\* _get_collapse_strategy
_get_collapse_strategy(avg_contradiction, driver_profile) ==
    IF FLt(avg_contradiction, Fin(6, 10))
    THEN "No special strategy needed - low contradiction"
    ELSE LET top_drivers == TopDriversFrom(driver_profile, SortedDrivers(driver_profile), 1)
         IN  IF Len(top_drivers) >= 2
             THEN "Address tension between " \o top_drivers[1] \o " and " \o top_drivers[2]
                  \o " through integrated messaging"
             ELSE "Focus on resolving internal conflicts through targeted communication"

\* generate_messaging_strategy (tone, timing and contradiction_level are
\* left out)
generate_messaging_strategy(driver_profile, characteristics, hash_seed) ==
    [themes |-> _get_messaging_themes(driver_profile, hash_seed),
     channels |-> _get_messaging_channels(characteristics, hash_seed),
     collapse_strategy |->
         _get_collapse_strategy(characteristics.avg_contradiction, driver_profile),
     dominant_driver |-> DominantDriver(driver_profile)]

\* _characterize_single_cluster.  uuid.uuid4() is a fresh random identifier:
\* rand.uuid stands for the state of the random source at the call.
_characterize_single_cluster(cluster_id, cluster_actors, cluster_features, total_actors, rand) ==
    LET driver_profile == _calculate_driver_profile(cluster_actors)
        characteristics == _calculate_cluster_characteristics(cluster_actors, cluster_features)
    IN  [cohort_id |-> <<rand.uuid, cluster_id>>,
         cohort_name |-> _generate_cohort_name(driver_profile, characteristics),
         size |-> Len(cluster_actors),
         percentage |-> Fin(Len(cluster_actors) * 100, total_actors),
         driver_profile |-> driver_profile,
         characteristics |-> characteristics,
         messaging_strategy |->
             generate_messaging_strategy(driver_profile, characteristics, rand.hash_seed),
         notable_actors |-> _find_notable_actors(cluster_actors, cluster_features),
         cluster_id |-> cluster_id]

\* list.sort(key=size, reverse=True): stable, largest first
SortBySizeDescending(list) ==
    [r \in 1..Len(list) |->
        list[CHOOSE i \in 1..Len(list) :
                Cardinality({j \in 1..Len(list) :
                    list[j].size > list[i].size
                    \/ (list[j].size = list[i].size /\ j < i)}) = r - 1]]

RECURSIVE CharacterizeFrom(_, _, _, _, _, _)
\* the loop of characterize_clusters over cluster_id in range(n_clusters)
CharacterizeFrom(cluster_id, n_clusters, actor_list, label_vector, feature_matrix, rand) ==
    IF cluster_id >= n_clusters THEN <<>>
    ELSE LET members == Members(label_vector, cluster_id, 1)
             cluster_actors == [i \in 1..Len(members) |-> actor_list[members[i]]]
             cluster_features == [i \in 1..Len(members) |-> feature_matrix[members[i]]]
         IN  (IF Len(cluster_actors) = 0 THEN <<>>
              ELSE <<_characterize_single_cluster(cluster_id, cluster_actors,
                                                  cluster_features, Len(actor_list), rand)>>)
             \o CharacterizeFrom(cluster_id + 1, n_clusters, actor_list,
                                 label_vector, feature_matrix, rand)

\* characterize_clusters
characterize_clusters(actor_list, label_vector, feature_matrix, rand) ==
    LET n_clusters == Cardinality(Unique(label_vector))
    IN  SortBySizeDescending(
            CharacterizeFrom(0, n_clusters, actor_list, label_vector, feature_matrix, rand))

\* what a call draws from outside its arguments: the random source of
\* uuid4 and the hash seed of the interpreter process
RandomDraws == [uuid : {1, 2}, hash_seed : {0, 1}]

\* ------------------------------------------------------------ algorithms.py
\* What the scikit-learn estimator does on a call is an input of the model:
\* it raises, or it returns a label vector ("fit").
FitRaises == [raised |-> TRUE, labels |-> <<>>]
FitLabels(label_vector) == [raised |-> FALSE, labels |-> label_vector]
CyclicLabels(n, k) == [i \in 1..n |-> (i - 1) % k]
NoisyLabels(n) == [i \in 1..n |-> IF i % 3 = 0 THEN -1 ELSE (i % 3) - 1]
AllNoise(n) == [i \in 1..n |-> -1]

\* fits of an estimator asked for k clusters on n rows
PartitionFits(n, k) ==
    {FitRaises} \cup (IF n >= k THEN {FitLabels(CyclicLabels(n, k))} ELSE {})
\* fits of DBSCAN on n rows
DensityFits(n) == {FitRaises, FitLabels(AllNoise(n)), FitLabels(NoisyLabels(n))}

NoValidation == [status |-> "none"]
ClusteringResult(algorithm, parameters, label_vector, keys) ==
    [algorithm |-> algorithm, parameters |-> parameters, labels |-> label_vector,
     features |-> <<>>, validation |-> NoValidation, keys |-> keys]

KMeansKeys == {"labels", "centers", "inertia", "algorithm", "parameters", "n_clusters_found"}
DbscanKeys == {"labels", "n_clusters", "n_outliers", "n_core_samples", "algorithm",
               "parameters", "core_sample_indices"}
HierarchicalKeys == {"labels", "linkage_matrix", "algorithm", "parameters", "n_clusters_found"}
GmmKeys == {"labels", "probabilities", "aic", "bic", "log_likelihood", "algorithm",
            "parameters", "n_clusters_found", "model"}
SpectralKeys == {"labels", "algorithm", "parameters", "n_clusters_found"}

cluster_kmeans(features, n_clusters, fit) ==
    IF fit.raised THEN Raised("K-Means clustering failed")
    ELSE Ok(ClusteringResult("kmeans", n_clusters, fit.labels, KMeansKeys))

cluster_dbscan(features, fit) ==
    IF fit.raised THEN Raised("DBSCAN clustering failed")
    ELSE Ok(ClusteringResult("dbscan", 0, fit.labels, DbscanKeys))

\* the same wrapper numbering the clusters from 1
cluster_hierarchical_OneBased(features, n_clusters, fit) ==
    IF fit.raised THEN Raised("Hierarchical clustering failed")
    ELSE Ok(ClusteringResult("hierarchical", n_clusters,
                             [i \in 1..Len(fit.labels) |-> fit.labels[i] + 1],
                             HierarchicalKeys))

cluster_hierarchical(features, n_clusters, fit) ==
    IF fit.raised THEN Raised("Hierarchical clustering failed")
    ELSE Ok(ClusteringResult("hierarchical", n_clusters, fit.labels, HierarchicalKeys))

cluster_gaussian_mixture(features, n_components, fit) ==
    IF fit.raised THEN Raised("Gaussian Mixture Model failed")
    ELSE Ok(ClusteringResult("gmm", n_components, fit.labels, GmmKeys))

cluster_spectral(features, n_clusters, fit) ==
    IF fit.raised THEN Raised("Spectral clustering failed")
    ELSE Ok(ClusteringResult("spectral", n_clusters, fit.labels, SpectralKeys))

\* the results of the calls that returned, in call order
RECURSIVE Returned(_)
Returned(outcomes) ==
    IF outcomes = <<>> THEN <<>>
    ELSE (IF outcomes[1].status = "ok" THEN <<outcomes[1].value>> ELSE <<>>)
         \o Returned(Tail(outcomes))

RECURSIVE ReturnedUntilRaise(_)
ReturnedUntilRaise(outcomes) ==
    IF outcomes = <<>> \/ outcomes[1].status # "ok" THEN <<>>
    ELSE <<outcomes[1].value>> \o ReturnedUntilRaise(Tail(outcomes))

\* the same loop ending at the first k whose run raises
cluster_kmeans_range_StopsAtRaise(features, k_range, fits) ==
    ReturnedUntilRaise([i \in 1..Len(k_range) |-> cluster_kmeans(features, k_range[i], fits[i])])

\* cluster_kmeans_range: a k whose run raises is skipped
cluster_kmeans_range(features, k_range, fits) ==
    Returned([i \in 1..Len(k_range) |-> cluster_kmeans(features, k_range[i], fits[i])])

K_RANGE == <<3, 5, 7, 10>>
DEFAULT_N_CLUSTERS == 5

\* run_all_algorithms: every call is guarded by its own try/except
run_all_algorithms(features, n_clusters, k_range, kmeans_fits, fits) ==
    cluster_kmeans_range(features, k_range, kmeans_fits)
    \o Returned(<<cluster_dbscan(features, fits[1]),
                  cluster_hierarchical(features, n_clusters, fits[2]),
                  cluster_gaussian_mixture(features, n_clusters, fits[3]),
                  cluster_spectral(features, n_clusters, fits[4])>>)

CountLabel(label_vector, l) == Cardinality({i \in 1..Len(label_vector) : label_vector[i] = l})

\* ------------------------------------------------- algorithms.py, DBSCAN
\* DBSCAN(eps, min_samples, metric='euclidean').fit_predict(features), as
\* scikit-learn documents it: the neighbourhood of a row holds every row
\* within eps of it, the row itself included; a row is a core sample when its
\* neighbourhood holds at least min_samples rows; clusters are grown from the
\* core samples in row order and numbered from 0, a row that is not a core
\* sample joins the first cluster that reaches it, and a row no core sample
\* reaches is noise (-1).  eps is in fixed-point units.
Neighbourhood(features, eps, i) == {j \in 1..Len(features) : Euclid(features[i], features[j]) <= eps}
CoreSamples(features, eps, min_samples) ==
    {i \in 1..Len(features) : Cardinality(Neighbourhood(features, eps, i)) >= min_samples}

RECURSIVE Grow(_, _, _, _)
\* the core samples density-connected to the ones in found
Grow(features, eps, core, found) ==
    LET more == {j \in core : \E i \in found : j \in Neighbourhood(features, eps, i)}
    IN  IF more \subseteq found THEN found
        ELSE Grow(features, eps, core, found \cup more)

DBSCAN(features, eps, min_samples) ==
    LET core == CoreSamples(features, eps, min_samples)
        component(i) == Grow(features, eps, core, {i})
        seeds == {i \in core : \A j \in component(i) : i <= j}
        label(i) == Cardinality({q \in seeds : q < CHOOSE r \in seeds : i \in component(r)})
        reaching(j) == {label(i) : i \in core \cap Neighbourhood(features, eps, j)}
    IN  [labels |-> [j \in 1..Len(features) |->
                        IF j \in core THEN label(j)
                        ELSE IF reaching(j) = {} THEN -1
                        ELSE CHOOSE l \in reaching(j) : \A m \in reaching(j) : l <= m],
         core_sample_indices |-> {i - 1 : i \in core}]

\* the same result with the noise label counted as a cluster
cluster_dbscan_fit_CountsNoise(features, eps, min_samples) ==
    LET dbscan == DBSCAN(features, eps, min_samples)
    IN  [labels |-> dbscan.labels,
         n_clusters |-> Cardinality(Unique(dbscan.labels)),
         n_outliers |-> CountLabel(dbscan.labels, -1),
         n_core_samples |-> Cardinality(dbscan.core_sample_indices),
         algorithm |-> "dbscan",
         parameters |-> [eps |-> eps, min_samples |-> min_samples],
         core_sample_indices |-> dbscan.core_sample_indices]

\* cluster_dbscan with the estimator spelled out (the result entries it
\* computes from the fit)
cluster_dbscan_fit(features, eps, min_samples) ==
    LET dbscan == DBSCAN(features, eps, min_samples)
        label_set == Unique(dbscan.labels)
    IN  [labels |-> dbscan.labels,
         n_clusters |-> Cardinality(label_set) - (IF -1 \in label_set THEN 1 ELSE 0),
         n_outliers |-> CountLabel(dbscan.labels, -1),
         n_core_samples |-> Cardinality(dbscan.core_sample_indices),
         algorithm |-> "dbscan",
         parameters |-> [eps |-> eps, min_samples |-> min_samples],
         core_sample_indices |-> dbscan.core_sample_indices]

\* ------------------------------------------------- algorithms.py, best k
FAdd(a, b) == FSub(a, FNeg(b))
FDouble(a) == IF IsFinite(a) THEN Fin(2 * a.n, a.d) ELSE a

\* np.argmax of a non-empty list, 0-based: the first NaN if there is one,
\* else the first of the largest entries
NpArgMax(values) ==
    (IF HasNaN(values)
     THEN CHOOSE i \in 1..Len(values) :
              IsNaN(values[i]) /\ \A j \in 1..(i - 1) : ~IsNaN(values[j])
     ELSE CHOOSE i \in 1..Len(values) :
              /\ \A j \in 1..Len(values) : ~FLt(values[i], values[j])
              /\ \A j \in 1..(i - 1) : FLt(values[j], values[i])) - 1

\* np.log(a) - np.log(b) for a, b >= 0, up to a growing rescaling of the
\* finite values: a / b stands for the difference of two finite logarithms,
\* log(0) is -inf and log(inf) is inf
LogGap(a, b) ==
    LET infinite(x) == IsInf(x) \/ (IsFinite(x) /\ x.n = 0)
        log(x) == IF IsInf(x) THEN PosInf ELSE IF x.n = 0 THEN NegInf ELSE Fin(0, 1)
    IN  IF infinite(a) \/ infinite(b) THEN FSub(log(a), log(b)) ELSE FDiv(a, b)

\* what KMeans(n_clusters=k).fit and silhouette_score yield for one k: an
\* exception, or an inertia and a silhouette score (fixed point)
KFits ==
    {[raised |-> TRUE, inertia |-> 0, silhouette |-> 0],
     [raised |-> FALSE, inertia |-> 900, silhouette |-> 200],
     [raised |-> FALSE, inertia |-> 400, silhouette |-> 600],
     [raised |-> FALSE, inertia |-> 0, silhouette |-> 300]}

\* the list the elbow and gap loops collect: inf for a k that raised
Inertias(fits) ==
    [i \in 1..Len(fits) |-> IF fits[i].raised THEN PosInf ELSE Fin(fits[i].inertia, 1)]

\* _find_optimal_k_elbow (k_range is 1-based here)
_find_optimal_k_elbow(k_range, fits) ==
    LET inertias == Inertias(fits)
        second_derivatives ==
            [i \in 1..(Len(inertias) - 2) |->
                FAdd(FSub(inertias[i], FDouble(inertias[i + 1])), inertias[i + 2])]
    IN  IF Len(inertias) < 3 THEN k_range[1]
        ELSE k_range[NpArgMax(second_derivatives) + 2]

\* _find_optimal_k_silhouette
_find_optimal_k_silhouette(k_range, fits) ==
    LET silhouette_scores ==
            [i \in 1..Len(fits) |->
                IF fits[i].raised THEN Fin(-1, 1) ELSE Fin(fits[i].silhouette, Milli)]
    IN  k_range[NpArgMax(silhouette_scores) + 1]

\* _find_optimal_k_gap
_find_optimal_k_gap(k_range, fits) ==
    LET inertias == Inertias(fits)
        gaps == [i \in 1..(Len(inertias) - 1) |-> LogGap(inertias[i], inertias[i + 1])]
    IN  IF Len(gaps) > 0 THEN k_range[NpArgMax(gaps) + 2] ELSE k_range[1]

\* find_optimal_k: fits[i] is what the estimator does for k = i + 1
find_optimal_k(max_k, method, fits) ==
    LET k_range == [i \in 1..(max_k - 1) |-> i + 1]
    IN  IF method = "elbow" THEN Ok(_find_optimal_k_elbow(k_range, fits))
        ELSE IF method = "silhouette" THEN Ok(_find_optimal_k_silhouette(k_range, fits))
        ELSE IF method = "gap" THEN Ok(_find_optimal_k_gap(k_range, fits))
        ELSE Raised("Unknown method")

\* ------------------------------------------------------------ validation.py
\* What the scikit-learn metrics return on (features, labels) is an input of
\* the model ("oracle"), in fixed-point units.
Oracles ==
    {[silhouette |-> 600, calinski_harabasz |-> 2000 * Milli, davies_bouldin |-> 500],
     [silhouette |-> 250, calinski_harabasz |-> 500 * Milli, davies_bouldin |-> 400],
     [silhouette |-> -200, calinski_harabasz |-> 100 * Milli, davies_bouldin |-> 12000]}

\* the same buckets with the thresholds included
_interpret_clustering_quality_Inclusive(metrics) ==
    IF metrics.silhouette_score >= 500 THEN "excellent"
    ELSE IF metrics.silhouette_score >= 300 THEN "good"
    ELSE IF metrics.silhouette_score >= 200 THEN "fair"
    ELSE "poor"

_interpret_clustering_quality(metrics) ==
    IF metrics.silhouette_score > 500 THEN "excellent"
    ELSE IF metrics.silhouette_score > 300 THEN "good"
    ELSE IF metrics.silhouette_score > 200 THEN "fair"
    ELSE "poor"


\* validate_clustering (the variance and centroid-distance lists it also
\* returns are left out)
validate_clustering(features, label_vector, oracle) ==
    LET n_samples == Len(features)
        n_clusters == Cardinality(Unique(label_vector))
        defined == n_clusters > 1 /\ n_samples > n_clusters
        metrics ==
            [silhouette_score |-> IF defined THEN oracle.silhouette ELSE 0 - Milli,
             calinski_harabasz_score |-> IF defined THEN oracle.calinski_harabasz ELSE 0,
             davies_bouldin_score |-> IF defined THEN oracle.davies_bouldin ELSE INF,
             cluster_sizes |-> [i \in 1..n_clusters |-> CountLabel(label_vector, i - 1)],
             n_clusters |-> n_clusters,
             n_outliers |-> CountLabel(label_vector, -1)]
    IN  [status |-> "ok",
         silhouette_score |-> metrics.silhouette_score,
         calinski_harabasz_score |-> metrics.calinski_harabasz_score,
         davies_bouldin_score |-> metrics.davies_bouldin_score,
         cluster_sizes |-> metrics.cluster_sizes,
         n_clusters |-> metrics.n_clusters,
         n_outliers |-> metrics.n_outliers,
         interpretation |-> _interpret_clustering_quality(metrics)]

\* result.get(key) is not None
HasKey(result, key) == key \in result.keys

RECURSIVE ValidatedResults(_, _, _)
\* the first loop of compare_clustering_results: a result without features
\* or labels is skipped, the others get their validation attached
ValidatedResults(results_list, oracles, i) ==
    IF i > Len(results_list) THEN <<>>
    ELSE (IF HasKey(results_list[i], "features") /\ HasKey(results_list[i], "labels")
          THEN <<[results_list[i] EXCEPT
                    !.validation = validate_clustering(results_list[i].features,
                                                       results_list[i].labels, oracles[i]),
                    !.keys = @ \cup {"validation"}]>>
          ELSE <<>>)
         \o ValidatedResults(results_list, oracles, i + 1)

\* sorted(..., reverse=True) on (index, score) pairs: 0-based indices, best
\* score first, equal scores in index order
\* the same ranking with the lowest score first
RankDescending_LowestFirst(scores) ==
    [r \in 1..Len(scores) |->
        (CHOOSE i \in 1..Len(scores) :
            Cardinality({j \in 1..Len(scores) :
                scores[j] < scores[i] \/ (scores[j] = scores[i] /\ j < i)}) = r - 1) - 1]

RankDescending(scores) ==
    [r \in 1..Len(scores) |->
        (CHOOSE i \in 1..Len(scores) :
            Cardinality({j \in 1..Len(scores) :
                scores[j] > scores[i] \/ (scores[j] = scores[i] /\ j < i)}) = r - 1) - 1]

RankAscending(scores) ==
    [r \in 1..Len(scores) |->
        (CHOOSE i \in 1..Len(scores) :
            Cardinality({j \in 1..Len(scores) :
                scores[j] < scores[i] \/ (scores[j] = scores[i] /\ j < i)}) = r - 1) - 1]

\* 0.5 * silhouette + 0.3 * min(1, CH / 1000) + 0.2 * max(0, 1 - min(1, DB / 10)),
\* in units of 1 / (10 * Milli)
OverallScore(v) ==
    5 * Max(0, v.silhouette_score)
    + 3 * Min(Milli, v.calinski_harabasz_score \div 1000)
    + 2 * Max(0, Milli - Min(Milli, v.davies_bouldin_score \div 10))

\* compare_clustering_results
compare_clustering_results(results_list, oracles) ==
    IF Len(results_list) = 0 THEN Raised("No clustering results provided for comparison")
    ELSE LET validated_results == ValidatedResults(results_list, oracles, 1)
             n == Len(validated_results)
             overall == RankDescending([i \in 1..n |-> OverallScore(validated_results[i].validation)])
         IN  IF n = 0 THEN Raised("No valid clustering results found")
             ELSE Ok([n_results |-> n,
                      results |-> validated_results,
                      rankings |->
                          [silhouette |-> RankDescending(
                               [i \in 1..n |-> validated_results[i].validation.silhouette_score]),
                           calinski_harabasz |-> RankDescending(
                               [i \in 1..n |-> validated_results[i].validation.calinski_harabasz_score]),
                           davies_bouldin |-> RankAscending(
                               [i \in 1..n |-> validated_results[i].validation.davies_bouldin_score]),
                           overall |-> overall],
                      best_result |-> validated_results[overall[1] + 1],
                      best_algorithm |-> validated_results[overall[1] + 1].algorithm,
                      best_silhouette |->
                          validated_results[overall[1] + 1].validation.silhouette_score])

\* ---------------------------------------------------------------- database.py
\* save_actor_assignments: an assignment without a cohort id is skipped; the
\* number of rows written is returned
save_actor_assignments(assignment_list) ==
    Cardinality({i \in 1..Len(assignment_list) : assignment_list[i].assigned_cohort_id # NONE})

\* ------------------------------------------------------------ idle values
NoOutcome == [status |-> "none", error |-> "none", value |-> <<>>]
DefaultConfig ==
    [include_drivers |-> TRUE, include_contradiction |-> TRUE,
     include_quantum |-> TRUE, normalize |-> TRUE]

NoCall == [function |-> "none"]
NoFit == [stage |-> "none"]
IdleCall == call = NoCall /\ call_result = NoOutcome /\ kmeans = NoFit
IdlePrepare == feature_config = DefaultConfig /\ prepared = NoOutcome
IdleAssign == cluster_centers = <<>> /\ assignment = NoOutcome /\ assignments = NoOutcome
IdleCharacterize == labels = <<>> /\ cohorts = NoOutcome
IdleMain ==
    /\ driver = "none" /\ args = [algorithm |-> "all", n_clusters |-> 7] /\ pc = "idle"
    /\ results = <<>> /\ invoked = <<>> /\ comparison = NoOutcome
    /\ best_result = NoOutcome /\ validation_report = NoOutcome /\ saved = NoOutcome
    /\ failure = "none"

prepareVars == <<feature_config, prepared>>
assignVars == <<cluster_centers, assignment, assignments>>
characterizeVars == <<labels, cohorts>>
mainVars == <<driver, args, pc, results, invoked, comparison, best_result,
              validation_report, saved, failure>>

\* ============================================ feature preparation on its own
InitPrepare ==
    /\ IdleCall
    /\ \E n \in 0..MaxActors, p \in Profiles, q \in Profiles, r \in ThirdProfiles :
          actors = ActorList(n, p, q, r)
    /\ IdlePrepare /\ IdleAssign /\ IdleCharacterize /\ IdleMain

\* a call prepare_feature_matrix(actors, feature_config)
PrepareFeatureMatrix ==
    /\ prepared.status = "none"
    /\ \E cfg \in Configs, rounds \in BOOLEAN :
          /\ feature_config' = cfg
          /\ prepared' = prepare_feature_matrix(actors, cfg, rounds)
    /\ UNCHANGED <<kmeans, call, call_result, actors, assignVars, characterizeVars, mainVars>>

NextPrepare == PrepareFeatureMatrix

SpecPrepare == InitPrepare /\ [][NextPrepare]_vars

\* the matrix as extracted from the actors, before normalization
RawMatrix == [i \in 1..Len(actors) |-> RowFeatures(actors[i], feature_config)]
RawCells == {<<i, j>> \in (1..Len(actors)) \X (1..Len(FeatureNames(feature_config))) : TRUE}
PreparedCalled == prepared.status # "none"
PreparedOk == prepared.status = "ok"

MalformedErrors == {"NaN values in feature matrix", "infinite values in feature matrix"}
FullMatrix == Len(actors) >= MIN_ACTORS /\ Len(FeatureNames(feature_config)) > 0
RawNonFinite == \E c \in RawCells : ~IsFinite(RawMatrix[c[1]][c[2]])
RawConstant(j) == StdIsZero(Column(RawMatrix, j), FALSE)

\* C3: a non-finite extracted value makes prepare_feature_matrix fail with a
\* malformed-feature error (NaN / infinite values) and return no matrix,
\* with normalize on or off.  Stated for lists long enough to pass the
\* actor-count check, which comes first.
C3_NonFiniteInputFails ==
    (PreparedCalled /\ FullMatrix /\ RawNonFinite)
        => (prepared.status = "raised" /\ prepared.error \in MalformedErrors)

\* C9: with normalize on, a column whose raw values are all equal is 0.5
\* throughout the prepared matrix, preparation succeeds when nothing else is
\* wrong with the matrix, and validation reports the column as constant.
C9_ConstantColumnIsHalf ==
    (PreparedCalled /\ feature_config.normalize /\ FullMatrix /\ ~RawNonFinite)
        => /\ PreparedOk
           /\ \A j \in 1..Len(FeatureNames(feature_config)) :
                 RawConstant(j) =>
                    /\ \A i \in 1..Len(actors) : FEq(prepared.value.features[i][j], Half)
                    /\ (j - 1) \in prepared.value.constant_features

PreparedColumn(j) == Column(prepared.value.features, j)
PreparedConstant(j) == \A i \in 1..Len(actors) : FEq(PreparedColumn(j)[i], PreparedColumn(j)[1])

\* C10: every value of a matrix prepared with normalize on lies in [0,1],
\* and every non-constant column has minimum 0 and maximum 1.
C10_NormalizedInUnitRange ==
    (PreparedOk /\ feature_config.normalize)
        => \A j \in 1..Len(FeatureNames(feature_config)) :
              /\ \A i \in 1..Len(actors) : InUnit(PreparedColumn(j)[i])
              /\ ~PreparedConstant(j) =>
                    /\ FEq(NpMin(PreparedColumn(j)), Fin(0, 1))
                    /\ FEq(NpMax(PreparedColumn(j)), Fin(1, 1))

\* ===================================================== assignment on its own
AssignConfigs ==
    {cfg \in Configs : cfg.normalize /\ (cfg.include_contradiction => cfg.include_drivers)
                       /\ (cfg.include_drivers \/ cfg.include_quantum)}

\* an actor record without driver_distribution
BareActor(id) ==
    [actor_id |-> id, contradiction_score |-> Raw(2),
     superposition_detected |-> FALSE, coherence |-> Raw(5)]

AssignActors == {Actor(1, p) : p \in FiniteProfiles} \cup {BareActor(1)}

CenterLists(cfg) ==
    UNION {[1..c -> {RowFeatures(Actor(1, p), cfg) : p \in FiniteProfiles}] : c \in 0..MaxCohorts}

InitAssign ==
    /\ IdleCall
    /\ actors = <<>>
    /\ feature_config \in AssignConfigs
    /\ cluster_centers \in CenterLists(feature_config)
    /\ prepared = NoOutcome /\ assignment = NoOutcome /\ assignments = NoOutcome
    /\ IdleCharacterize /\ IdleMain

NothingAssigned == assignment.status = "none" /\ assignments.status = "none"

\* a call assign_actor_to_cluster(actor, cluster_centers, feature_names, cfg)
AssignActorToCluster ==
    /\ NothingAssigned
    /\ \E actor \in AssignActors, cfg \in AssignConfigs :
          /\ actors' = <<actor>>
          /\ feature_config' = cfg
          /\ assignment' = Ok(assign_actor_to_cluster(actor, cluster_centers, cfg))
    /\ UNCHANGED <<kmeans, call, call_result, prepared, cluster_centers, assignments, characterizeVars, mainVars>>

\* a call batch_assign_actors(actors, clusters), the clusters being the
\* cohorts whose centroids are cluster_centers
BatchAssignActors ==
    /\ NothingAssigned
    /\ \E n \in 0..MaxBatch, p \in FiniteProfiles, q \in FiniteProfiles :
          /\ actors' = ActorList(n, p, q, p)
          /\ assignments' = Ok(batch_assign_actors(actors', cluster_centers))
    /\ UNCHANGED <<kmeans, call, call_result, feature_config, prepared, cluster_centers, assignment,
                   characterizeVars, mainVars>>

NextAssign == AssignActorToCluster \/ BatchAssignActors

SpecAssign == InitAssign /\ [][NextAssign]_vars

AssignCalled == assignment.status = "ok"
AssignSucceeded == AssignCalled /\ assignment.value.error = "none"
BatchCalled == assignments.status = "ok"
\* the vector the assigned actor was compared with the centers on
AssignedFeatures == RowFeatures(actors[1], feature_config)
CenterDistance(j) == Euclid(AssignedFeatures, cluster_centers[j + 1])
CenterIndices == 0..(Len(cluster_centers) - 1)

\* C1: for a non-empty list of cohorts batch_assign_actors returns one
\* Assignment per actor, in input order, equal to what assign_actor_to_cluster
\* gives for that actor alone against the cohorts' centroids.
C1_BatchEqualsSingleAssign ==
    (BatchCalled /\ Len(cluster_centers) >= 1)
        => /\ Len(assignments.value) = Len(actors)
           /\ \A i \in 1..Len(actors) :
                 LET single == assign_actor_to_cluster(actors[i], cluster_centers, feature_config)
                     batch == assignments.value[i]
                 IN  /\ batch.actor_id = actors[i].actor_id
                     /\ batch.assigned_cohort_id = single.assigned_cohort_id
                     /\ batch.confidence = single.confidence
                     /\ batch.distance_to_center = single.distance_to_center
                     /\ batch.alternative_cohorts = single.alternative_cohorts

\* C5: the alternatives are other cohorts than the primary one, there are
\* min(2, c - 1) of them, nearest remaining first, each with its own
\* distance and confidence.
C5_AlternativesAreOtherCohorts ==
    AssignSucceeded
        => LET a == assignment.value
               alts == a.alternative_cohorts
               listed == {alts[k].cohort_id : k \in 1..Len(alts)}
           IN  /\ a.assigned_cohort_id \notin listed
               /\ Len(alts) = Min(2, Len(cluster_centers) - 1)
               /\ Cardinality(listed) = Len(alts)
               /\ \A k \in 1..Len(alts) :
                     /\ alts[k].cohort_id \in CenterIndices
                     /\ alts[k].distance = CenterDistance(alts[k].cohort_id)
                     /\ alts[k].confidence =
                           calculate_assignment_confidence(
                               AssignedFeatures, cluster_centers[alts[k].cohort_id + 1])
                     /\ k > 1 => alts[k - 1].distance <= alts[k].distance
                     /\ \A j \in CenterIndices \ (listed \cup {a.assigned_cohort_id}) :
                           alts[k].distance <= CenterDistance(j)

\* C6: the primary cohort is one whose centroid is at the least Euclidean
\* distance from the actor's vector, and distance_to_center is that distance.
C6_PrimaryIsNearest ==
    AssignSucceeded
        => LET a == assignment.value
           IN  /\ a.assigned_cohort_id \in CenterIndices
               /\ a.cohort_id = a.assigned_cohort_id
               /\ \A j \in CenterIndices :
                     CenterDistance(a.assigned_cohort_id) <= CenterDistance(j)
               /\ a.distance_to_center = CenterDistance(a.assigned_cohort_id)

\* the primary cohort is not the first one and some cohort is farther away
C6_Witness ==
    /\ AssignSucceeded
    /\ assignment.value.assigned_cohort_id > 0
    /\ \E j \in CenterIndices : CenterDistance(j) > assignment.value.distance_to_center

InConfidenceRange(c) == 0 <= c /\ c <= Milli
MaxPossibleDistance == ISqrt(Len(AssignedFeatures) * Milli * Milli)

\* C7: every confidence of an assignment record lies in [0,1]; on success it
\* is max(0, 1 - distance/sqrt(numFeatures)), for the primary cohort and for
\* the alternatives; a vector equal to a centroid gets confidence >= 0.95.
C7_ConfidenceInUnitRange ==
    /\ BatchCalled =>
          \A i \in 1..Len(assignments.value) : InConfidenceRange(assignments.value[i].confidence)
    /\ AssignCalled =>
          LET a == assignment.value
              alts == a.alternative_cohorts
          IN  /\ InConfidenceRange(a.confidence)
              /\ \A k \in 1..Len(alts) : InConfidenceRange(alts[k].confidence)
              /\ a.error = "none" =>
                    /\ a.confidence =
                          Max(0, Milli - (a.distance_to_center * Milli) \div MaxPossibleDistance)
                    /\ a.confidence =
                          calculate_assignment_confidence(
                              AssignedFeatures, cluster_centers[a.assigned_cohort_id + 1])
                    /\ \A k \in 1..Len(alts) :
                          alts[k].confidence =
                              Max(0, Milli - (alts[k].distance * Milli) \div MaxPossibleDistance)
                    /\ (\E j \in CenterIndices : cluster_centers[j + 1] = AssignedFeatures)
                          => a.confidence * 100 >= 95 * Milli

\* the vector equals the primary centroid and an alternative lies farther
\* away than sqrt(numFeatures)
C7_Witness ==
    /\ AssignSucceeded
    /\ cluster_centers[assignment.value.assigned_cohort_id + 1] = AssignedFeatures
    /\ \E k \in 1..Len(assignment.value.alternative_cohorts) :
          assignment.value.alternative_cohorts[k].distance > MaxPossibleDistance

\* =============================================== characterization on its own
LabelVectors == UNION {[1..n -> (-1)..MaxLabel] : n \in 0..MaxLabelRows}

InitCharacterize ==
    /\ IdleCall
    /\ labels \in LabelVectors
    /\ actors = ActorList(Len(labels), SafetyProfile, StatusProfile, MixedProfile)
    /\ cohorts = NoOutcome
    /\ IdlePrepare /\ IdleAssign /\ IdleMain

\* a call characterize_clusters(actors, labels, feature_matrix)
CharacterizeClusters ==
    /\ \E rand \in RandomDraws :
          cohorts' = Ok(characterize_clusters(actors, labels, RawMatrix, rand))
    /\ UNCHANGED <<kmeans, call, call_result, actors, labels, prepareVars, assignVars, mainVars>>

NextCharacterize == CharacterizeClusters

SpecCharacterize == InitCharacterize /\ [][NextCharacterize]_vars

Characterized == cohorts.status = "ok"
NonNoiseLabels == Unique(labels) \ {-1}
LabelCount(l) == Cardinality({i \in 1..Len(labels) : labels[i] = l})

\* C8: characterize_clusters returns one Cohort per distinct non-noise label
\* that occurs (also when a smaller label has no member), none for -1, each
\* with the number of actors carrying the label as its size, largest first.
C8_OneCohortPerLabel ==
    Characterized
        => LET list == cohorts.value
           IN  /\ {list[k].cluster_id : k \in 1..Len(list)} = NonNoiseLabels
               /\ Len(list) = Cardinality(NonNoiseLabels)
               /\ \A k \in 1..Len(list) : list[k].size = LabelCount(list[k].cluster_id)
               /\ \A k \in 2..Len(list) : list[k - 1].size >= list[k].size

\* ======================================================== the clustering run
\* Two drivers: main() of run_clustering.py, and a caller that prepares the
\* features, calls run_all_algorithms and compares the results.
MainProfiles == {SafetyProfile, StatusProfile, PosInfProfile}
Algorithms == {"all", "kmeans", "dbscan", "hierarchical", "gmm"}
NClusterChoices == {3, 7}

InitRun ==
    /\ IdleCall
    /\ \E n \in 0..MaxActors, p \in MainProfiles, q \in MainProfiles :
          actors = ActorList(n, p, q, MixedProfile)
    /\ \/ driver = "main" /\ args \in [algorithm : Algorithms, n_clusters : NClusterChoices]
                          /\ pc = "load"
       \/ driver = "run_all_algorithms" /\ args = [algorithm |-> "all", n_clusters |-> 7]
                          /\ pc = "prepare"
    /\ results = <<>> /\ invoked = <<>> /\ comparison = NoOutcome
    /\ best_result = NoOutcome /\ validation_report = NoOutcome /\ saved = NoOutcome
    /\ failure = "none"
    /\ IdlePrepare /\ IdleAssign /\ IdleCharacterize

\* the driver ends on an exception (main: the handler prints it and exits 1)
Fail(error) == pc' = "failed" /\ failure' = error

\* main, step 1: get_actor_profiles raises when the query returns nothing;
\* with fewer than 10 actors main prints a warning and returns
MainLoadActors ==
    /\ driver = "main" /\ pc = "load"
    /\ IF Len(actors) = 0 THEN Fail("No actor profiles found matching criteria")
       ELSE /\ pc' = IF Len(actors) < MAIN_MIN_ACTORS THEN "returned" ELSE "prepare"
            /\ UNCHANGED failure
    /\ UNCHANGED <<kmeans, call, call_result, actors, prepareVars, assignVars, characterizeVars, driver, args,
                   results, invoked, comparison, best_result, validation_report, saved>>

\* step 2 of both drivers: prepare_feature_matrix(actors, feature_config)
RunPrepare ==
    /\ pc = "prepare"
    /\ \E rounds \in BOOLEAN :
          LET outcome == prepare_feature_matrix(actors, DefaultConfig, rounds)
          IN  /\ prepared' = outcome
              /\ IF outcome.status = "raised" THEN Fail(outcome.error)
                 ELSE pc' = "cluster" /\ UNCHANGED failure
    /\ UNCHANGED <<kmeans, call, call_result, actors, feature_config, assignVars, characterizeVars, driver, args,
                   results, invoked, comparison, best_result, validation_report, saved>>

Features == prepared.value.features
KMeansRangeFits ==
    {fits \in [1..Len(K_RANGE) -> {FitRaises} \cup
                  {FitLabels(CyclicLabels(Len(actors), K_RANGE[i])) : i \in 1..Len(K_RANGE)}] :
        \A i \in 1..Len(K_RANGE) : fits[i] \in PartitionFits(Len(actors), K_RANGE[i])}
KMeansRangeCalls == [i \in 1..Len(K_RANGE) |-> "kmeans"]

\* main, "all" branch: cluster_kmeans_range(features, [3, 5, 7, 10])
MainKMeansRange ==
    /\ driver = "main" /\ pc = "cluster" /\ args.algorithm = "all"
    /\ \E fits \in KMeansRangeFits :
          results' = cluster_kmeans_range(Features, K_RANGE, fits)
    /\ invoked' = KMeansRangeCalls
    /\ pc' = "dbscan"
    /\ UNCHANGED <<kmeans, call, call_result, actors, prepareVars, assignVars, characterizeVars, driver, args,
                   comparison, best_result, validation_report, saved, failure>>

\* main, "all" branch: cluster_dbscan inside try/except
MainDbscan ==
    /\ driver = "main" /\ pc = "dbscan"
    /\ \E fit \in DensityFits(Len(actors)) :
          results' = results \o Returned(<<cluster_dbscan(Features, fit)>>)
    /\ invoked' = Append(invoked, "dbscan")
    /\ pc' = "hierarchical5"
    /\ UNCHANGED <<kmeans, call, call_result, actors, prepareVars, assignVars, characterizeVars, driver, args,
                   comparison, best_result, validation_report, saved, failure>>

\* main, "all" branch: cluster_hierarchical with 5, then 7 clusters, each
\* inside try/except
MainHierarchical ==
    /\ driver = "main" /\ pc \in {"hierarchical5", "hierarchical7"}
    /\ LET k == IF pc = "hierarchical5" THEN 5 ELSE 7
       IN  \E fit \in PartitionFits(Len(actors), k) :
              results' = results \o Returned(<<cluster_hierarchical(Features, k, fit)>>)
    /\ invoked' = Append(invoked, "hierarchical")
    /\ pc' = IF pc = "hierarchical5" THEN "hierarchical7" ELSE "compare"
    /\ UNCHANGED <<kmeans, call, call_result, actors, prepareVars, assignVars, characterizeVars, driver, args,
                   comparison, best_result, validation_report, saved, failure>>

\* the caller of run_all_algorithms(features)
RunAllAlgorithms ==
    /\ driver = "run_all_algorithms" /\ pc = "cluster"
    /\ \E kmeans_fits \in KMeansRangeFits,
          fits \in [1..4 -> {FitRaises, FitLabels(CyclicLabels(Len(actors), DEFAULT_N_CLUSTERS)),
                             FitLabels(NoisyLabels(Len(actors)))}] :
          /\ fits[1] \in DensityFits(Len(actors))
          /\ \A i \in 2..4 : fits[i] \in PartitionFits(Len(actors), DEFAULT_N_CLUSTERS)
          /\ results' = run_all_algorithms(Features, DEFAULT_N_CLUSTERS, K_RANGE,
                                           kmeans_fits, fits)
    /\ invoked' = KMeansRangeCalls \o <<"dbscan", "hierarchical", "gmm", "spectral">>
    /\ pc' = "compare"
    /\ UNCHANGED <<kmeans, call, call_result, actors, prepareVars, assignVars, characterizeVars, driver, args,
                   comparison, best_result, validation_report, saved, failure>>

\* one oracle per result that reaches validate_clustering
OracleChoices(results_list) ==
    {oracles \in [1..Len(results_list) -> Oracles] :
        \A i \in 1..Len(results_list) :
            ~(HasKey(results_list[i], "features") /\ HasKey(results_list[i], "labels"))
                => oracles[i] = CHOOSE o \in Oracles : TRUE}

\* both drivers: compare_clustering_results(results).  The validation is
\* stored into the result dictionaries themselves, so the caller's list
\* changes with it.
CompareClusteringResults ==
    /\ pc = "compare"
    /\ \E oracles \in OracleChoices(results) :
          LET outcome == compare_clustering_results(results, oracles)
              validated == ValidatedResults(results, oracles, 1)
          IN  /\ comparison' = outcome
              /\ results' = [i \in 1..Len(results) |->
                               IF HasKey(results[i], "features") /\ HasKey(results[i], "labels")
                               THEN ValidatedResults(<<results[i]>>, <<oracles[i]>>, 1)[1]
                               ELSE results[i]]
              /\ IF outcome.status = "raised"
                 THEN Fail(outcome.error) /\ UNCHANGED best_result
                 ELSE /\ best_result' = Ok(outcome.value.best_result)
                      /\ pc' = IF driver = "main" THEN "validate" ELSE "done"
                      /\ UNCHANGED failure
    /\ UNCHANGED <<kmeans, call, call_result, actors, prepareVars, assignVars, characterizeVars, driver, args,
                   invoked, validation_report, saved>>

\* main, single-algorithm branches; an exception of the algorithm ends main
MainSingleAlgorithm ==
    /\ driver = "main" /\ pc = "cluster" /\ args.algorithm # "all"
    /\ \E fit \in IF args.algorithm = "dbscan" THEN DensityFits(Len(actors))
                  ELSE PartitionFits(Len(actors), args.n_clusters) :
          LET outcome ==
                 IF args.algorithm = "kmeans" THEN cluster_kmeans(Features, args.n_clusters, fit)
                 ELSE IF args.algorithm = "dbscan" THEN cluster_dbscan(Features, fit)
                 ELSE IF args.algorithm = "hierarchical"
                      THEN cluster_hierarchical(Features, args.n_clusters, fit)
                 ELSE cluster_gaussian_mixture(Features, args.n_clusters, fit)
          IN  IF outcome.status = "raised"
              THEN Fail(outcome.error) /\ UNCHANGED best_result
              ELSE best_result' = outcome /\ pc' = "validate" /\ UNCHANGED failure
    /\ invoked' = <<args.algorithm>>
    /\ UNCHANGED <<kmeans, call, call_result, actors, prepareVars, assignVars, characterizeVars, driver, args,
                   results, comparison, validation_report, saved>>

\* main, step 5: validate_clustering(features, best_result["labels"])
MainValidate ==
    /\ driver = "main" /\ pc = "validate"
    /\ \E oracle \in Oracles :
          validation_report' = validate_clustering(Features, best_result.value.labels, oracle)
    /\ pc' = "characterize"
    /\ UNCHANGED <<kmeans, call, call_result, actors, prepareVars, assignVars, characterizeVars, driver, args,
                   results, invoked, comparison, best_result, saved, failure>>

\* main, step 6: characterize_clusters(actors, best_result["labels"], features)
MainCharacterize ==
    /\ driver = "main" /\ pc = "characterize"
    /\ labels' = best_result.value.labels
    /\ \E rand \in RandomDraws :
          cohorts' = Ok(characterize_clusters(actors, best_result.value.labels, Features, rand))
    /\ pc' = "assign"
    /\ UNCHANGED <<kmeans, call, call_result, actors, prepareVars, assignVars, driver, args, results, invoked,
                   comparison, best_result, validation_report, saved, failure>>

\* main, step 7: batch_assign_actors(actors, cohorts)
MainAssign ==
    /\ driver = "main" /\ pc = "assign"
    /\ assignments' = Ok(batch_assign_actors(actors, cohorts.value))
    /\ pc' = "save"
    /\ UNCHANGED <<kmeans, call, call_result, actors, prepareVars, cluster_centers, assignment, characterizeVars,
                   driver, args, results, invoked, comparison, best_result,
                   validation_report, saved, failure>>

\* main, step 8: save_clustering_run, save_cohorts, save_actor_assignments;
\* an exception of the store ends main
MainSave ==
    /\ driver = "main" /\ pc = "save"
    /\ \E store_ok \in BOOLEAN :
          IF store_ok
          THEN /\ saved' = Ok([n_clusters |-> Len(cohorts.value),
                               saved_assignments |-> save_actor_assignments(assignments.value)])
               /\ pc' = "done" /\ UNCHANGED failure
          ELSE Fail("Failed to insert clustering run data") /\ UNCHANGED saved
    /\ UNCHANGED <<kmeans, call, call_result, actors, prepareVars, assignVars, characterizeVars, driver, args,
                   results, invoked, comparison, best_result, validation_report>>

NextRun ==
    \/ MainLoadActors
    \/ RunPrepare
    \/ MainKMeansRange
    \/ MainDbscan
    \/ MainHierarchical
    \/ RunAllAlgorithms
    \/ CompareClusteringResults
    \/ MainSingleAlgorithm
    \/ MainValidate
    \/ MainCharacterize
    \/ MainAssign
    \/ MainSave

SpecRun == InitRun /\ [][NextRun]_vars

Compared == comparison.status # "none"
RunEnded == pc \in {"failed", "returned", "done"}
TooFewActors == Len(actors) < MIN_ACTORS

\* C2: when several algorithms are run and compared, an algorithm that
\* failed is left out, and the comparison fails only if every algorithm
\* failed: once at least one algorithm returned a result, the comparison
\* returns a best result taken from the collected ones.
C2_CompareSucceedsWithOneResult ==
    (Compared /\ Len(results) >= 1) =>
        /\ comparison.status = "ok"
        /\ pc # "failed"
        /\ \E i \in 1..Len(results) :
              /\ best_result.value.algorithm = results[i].algorithm
              /\ best_result.value.parameters = results[i].parameters

\* C4: with fewer actors than the minimum of 10 the run ends with an
\* insufficient-data error, no clustering algorithm has been invoked, and
\* the run never ends as a normal return.
C4_TooFewActorsRaises ==
    (RunEnded /\ TooFewActors /\ Len(actors) > 0) =>
        /\ pc = "failed"
        /\ failure = "Insufficient actors"
        /\ invoked = <<>>

\* ------------------------------------------------ later properties, SpecPrepare
\* C11: the columns of a prepared matrix are the six drivers, then
\* contradiction_score, then superposition_strength and coherence, each group
\* present only if enabled; there is one name per column and one actor id per
\* row, in input order.  Without normalization each cell is the actor's value
\* for the name of its column.
C11_ColumnOrder ==
    PreparedOk =>
        LET v == prepared.value
            all_names == <<"Safety", "Connection", "Status", "Growth", "Freedom", "Purpose",
                           "contradiction_score", "superposition_strength", "coherence">>
            Enabled(name) ==
                IF name = "contradiction_score" THEN feature_config.include_contradiction
                ELSE IF name \in {"superposition_strength", "coherence"}
                     THEN feature_config.include_quantum
                ELSE feature_config.include_drivers
            names == SelectSeq(all_names, Enabled)
            ValueNamed(actor, name) ==
                IF name = "contradiction_score" THEN actor.contradiction_score
                ELSE IF name = "coherence" THEN actor.coherence
                ELSE IF name = "superposition_strength"
                     THEN (IF actor.superposition_detected THEN Fin(1, 1) ELSE Fin(0, 1))
                ELSE actor.driver_distribution[name]
        IN  /\ v.feature_names = names
            /\ Len(v.features) = Len(actors)
            /\ v.actor_ids = [i \in 1..Len(actors) |-> actors[i].actor_id]
            /\ \A i \in 1..Len(actors) :
                  /\ Len(v.features[i]) = Len(names)
                  /\ ~feature_config.normalize =>
                        \A j \in 1..Len(names) :
                            FEq(v.features[i][j], ValueNamed(actors[i], names[j]))

C11_Witness ==
    /\ PreparedOk
    /\ ~feature_config.normalize
    /\ feature_config.include_contradiction /\ feature_config.include_quantum
    /\ ~feature_config.include_drivers
    /\ Len(prepared.value.feature_names) = 3

\* =================================================== comparing stored results
\* A caller that holds clustering results, some with the feature matrix
\* stored under "features" (the entry compare_clustering_results reads), and
\* calls validate_clustering and compare_clustering_results on them.
CompareFeatures == [i \in 1..MaxLabelRows |-> <<Raw(i % Scale)>>]
CompareLabels ==
    {CyclicLabels(MaxLabelRows, 2), CyclicLabels(MaxLabelRows, 1),
     CyclicLabels(MaxLabelRows, MaxLabelRows), AllNoise(MaxLabelRows),
     NoisyLabels(MaxLabelRows), [i \in 1..MaxLabelRows |-> IF i = 1 THEN -1 ELSE 0]}
StoredResults ==
    {[ClusteringResult("kmeans", 2, l, KMeansKeys \cup {"features"})
         EXCEPT !.features = CompareFeatures] : l \in CompareLabels}
    \cup {ClusteringResult("kmeans", 2, CyclicLabels(MaxLabelRows, 2), KMeansKeys)}

InitCompare ==
    /\ IdleCall
    /\ results \in UNION {[1..n -> StoredResults] : n \in 0..MaxResults}
    /\ driver = "compare" /\ pc = "compare"
    /\ args = [algorithm |-> "all", n_clusters |-> 7]
    /\ invoked = <<>> /\ comparison = NoOutcome
    /\ best_result = NoOutcome /\ validation_report = NoOutcome /\ saved = NoOutcome
    /\ failure = "none"
    /\ actors = <<>>
    /\ IdlePrepare /\ IdleAssign /\ IdleCharacterize

\* validate_clustering(features, result["labels"]) on one of the results
ValidateClustering ==
    /\ driver = "compare" /\ pc = "compare"
    /\ \E i \in 1..Len(results), oracle \in Oracles :
          /\ labels' = results[i].labels
          /\ validation_report' = validate_clustering(CompareFeatures, results[i].labels, oracle)
    /\ pc' = "validated"
    /\ UNCHANGED <<kmeans, call, call_result, actors, prepareVars, assignVars, cohorts, driver, args, results,
                   invoked, comparison, best_result, saved, failure>>

NextCompare ==
    \/ ValidateClustering
    \/ CompareClusteringResults

SpecCompare == InitCompare /\ [][NextCompare]_vars

\* C12: a ClusteringResult is never mutated: a call of validate_clustering
\* or compare_clustering_results, returning or failing, leaves every result
\* passed in with the same keys and values.
C12_ResultsNeverMutated == [][pc = "compare" => results' = results]_vars

\* C14: every ranking of a comparison is a permutation of the indices of the
\* compared results, ordered by silhouette (descending), Calinski-Harabasz
\* (descending), Davies-Bouldin (ascending) and by the overall score
\* 0.5*max(0,s) + 0.3*min(1,ch/1000) + 0.2*max(0,1-min(1,db/10)); the best
\* result is the first of the overall ranking: no compared result scores
\* higher, and none before it scores the same.
C14_RankingsAndBest ==
    comparison.status = "ok" =>
        LET c == comparison.value
            n == c.n_results
            v(i) == c.results[i + 1].validation
            score(i) == 5 * (IF v(i).silhouette_score > 0 THEN v(i).silhouette_score ELSE 0)
                        + 3 * (IF v(i).calinski_harabasz_score >= 1000 * Milli THEN Milli
                               ELSE v(i).calinski_harabasz_score \div 1000)
                        + 2 * (IF v(i).davies_bouldin_score >= 10 * Milli THEN 0
                               ELSE Milli - (v(i).davies_bouldin_score \div 10))
            IsPermutation(r) == Len(r) = n /\ {r[k] : k \in 1..n} = 0..(n - 1)
            best == c.rankings.overall[1]
        IN  /\ n >= 1
            /\ n = Cardinality({i \in 1..Len(results) : "features" \in results[i].keys})
            /\ IsPermutation(c.rankings.silhouette)
            /\ IsPermutation(c.rankings.calinski_harabasz)
            /\ IsPermutation(c.rankings.davies_bouldin)
            /\ IsPermutation(c.rankings.overall)
            /\ \A k \in 1..(n - 1) :
                  /\ v(c.rankings.silhouette[k]).silhouette_score
                        >= v(c.rankings.silhouette[k + 1]).silhouette_score
                  /\ v(c.rankings.calinski_harabasz[k]).calinski_harabasz_score
                        >= v(c.rankings.calinski_harabasz[k + 1]).calinski_harabasz_score
                  /\ v(c.rankings.davies_bouldin[k]).davies_bouldin_score
                        <= v(c.rankings.davies_bouldin[k + 1]).davies_bouldin_score
                  /\ score(c.rankings.overall[k]) >= score(c.rankings.overall[k + 1])
            /\ \A i \in 0..(n - 1) :
                  /\ score(i) <= score(best)
                  /\ i < best => score(i) < score(best)
            /\ c.best_result = c.results[best + 1]
            /\ best_result.value = c.best_result

\* three compared results, the best one neither first nor alone at the top
\* of the silhouette ranking
C14_Witness ==
    /\ comparison.status = "ok"
    /\ comparison.value.n_results = 3
    /\ comparison.value.rankings.overall[1] = 2
    /\ comparison.value.rankings.davies_bouldin # comparison.value.rankings.silhouette

\* C15: validate_clustering does not raise for an undefined metric: when the
\* labeling has fewer than 2 clusters (noise is not a cluster), or not fewer
\* clusters than points, it returns silhouette -1.0, Calinski-Harabasz 0,
\* Davies-Bouldin +infinity and the bucket "poor".
C15_UndefinedMetricsAreSentinels ==
    (driver = "compare" /\ pc = "validated") =>
        LET n_clusters == Cardinality(Unique(labels) \ {-1})
        IN  (n_clusters < 2 \/ ~(n_clusters < Len(labels))) =>
                /\ validation_report.silhouette_score = 0 - Milli
                /\ validation_report.calinski_harabasz_score = 0
                /\ validation_report.davies_bouldin_score = INF
                /\ validation_report.interpretation = "poor"

\* C13: characterization is a pure function of its inputs: a second call of
\* characterize_clusters with the same actors, labels and feature matrix
\* returns the same Cohort list as the first, cohort identifiers and the
\* order of the theme and channel lists included.
C13_CharacterizationIsPure ==
    [][(cohorts.status = "ok" /\ cohorts'.status = "ok"
            /\ actors' = actors /\ labels' = labels)
        => cohorts'.value = cohorts.value]_vars

\* C19: the notable actors of a cohort are min(3, size) distinct actor ids,
\* all of them members of the cohort, and no member left out is strictly
\* nearer to the mean feature vector of the members than a listed one.
C19_NotableActorsAreNearest ==
    Characterized =>
        \A c \in 1..Len(cohorts.value) :
            LET cohort == cohorts.value[c]
                members == {i \in 1..Len(labels) : labels[i] = cohort.cluster_id}
                listed == {cohort.notable_actors[k] : k \in 1..Len(cohort.notable_actors)}
                mean(j) == Fin(SumSeq([r \in 1..Cardinality(members) |->
                                  ToMilli(RawMatrix[CHOOSE i \in members :
                                      Cardinality({m \in members : m < i}) = r - 1][j])]),
                               Milli * Cardinality(members))
                far(i) == Euclid(RawMatrix[i], [j \in 1..Len(RawMatrix[i]) |-> mean(j)])
            IN  /\ Len(cohort.notable_actors) = Min(3, cohort.size)
                /\ Cardinality(listed) = Len(cohort.notable_actors)
                /\ listed \subseteq {actors[i].actor_id : i \in members}
                /\ \A i \in members, k \in members :
                      (actors[i].actor_id \notin listed /\ actors[k].actor_id \in listed)
                          => far(i) >= far(k)

\* a cohort of more than 3 members, one of them left out and strictly
\* farther than a listed one
C19_Witness ==
    /\ Characterized
    /\ \E c \in 1..Len(cohorts.value) :
          /\ cohorts.value[c].size > 3
          /\ Len(cohorts.value[c].notable_actors) = 3
          /\ cohorts.value[c].notable_actors # <<1, 2, 3>>

\* ================================================ library functions on their own
\* The functions of the package called directly, on arguments drawn from
\* their domains.
NameCalls ==
    {[function |-> "_generate_cohort_name",
      driver_profile |-> p,
      characteristics |-> [dominant_driver |-> DominantDriver(p), avg_contradiction |-> c,
                           superposition_prevalence |-> q]] :
        p \in {Dist(7, 0, 0, 0, 0, 3), Dist(8, 0, 0, 0, 0, 2), Dist(0, 2, 6, 2, 0, 0),
               Dist(4, 0, 0, 3, 3, 0)},
        c \in {Raw(5), Raw(6), Raw(7)},
        q \in {Fin(0, 1), Fin(30, 1), Fin(100, 3), Fin(100, 1)}}

AssignmentRecords ==
    [assigned_cohort_id : {NONE, 1}, confidence : {0, 399, 400, 700, 701, Milli}]
QualityCalls ==
    {[function |-> "validate_assignment_quality", assignments |-> a] :
        a \in UNION {[1..n -> AssignmentRecords] : n \in 0..MaxBatch}}

\* what the scikit-learn estimators hand back for k clusters on n rows:
\* fit_predict / predict of KMeans, AgglomerativeClustering, GaussianMixture
\* and SpectralClustering label every row in 0..k-1 (not every label need
\* occur) and raise when there are fewer rows than clusters
EstimatorFits(n, k) ==
    {FitRaises} \cup (IF n >= k THEN {FitLabels(l) : l \in [1..n -> 0..(k - 1)]} ELSE {})
\* DBSCAN numbers the clusters it finds from 0 and labels noise -1
DbscanFits(n) ==
    {FitRaises} \cup
    {FitLabels(l) : l \in {ll \in [1..n -> (-1)..(n - 1)] :
                              \E m \in 0..n : Unique(ll) \ {-1} = 0..(m - 1)}}
ClusterCalls ==
    UNION {{[function |-> "cluster", algorithm |-> a, features |-> CompareFeatures,
             n_clusters |-> k, fit |-> f] :
               a \in {"kmeans", "hierarchical", "gmm", "spectral"},
               f \in EstimatorFits(MaxLabelRows, k)} : k \in {2, 3, MaxLabelRows + 1}}
    \cup {[function |-> "cluster", algorithm |-> "dbscan", features |-> CompareFeatures,
           n_clusters |-> 0, fit |-> f] : f \in DbscanFits(MaxLabelRows)}

\* metrics dicts around the silhouette thresholds, in fixed-point units
InterpretCalls ==
    {[function |-> "_interpret_clustering_quality",
      metrics |-> [silhouette_score |-> sil, calinski_harabasz_score |-> ch,
                   davies_bouldin_score |-> db]] :
        sil \in {0 - Milli, 0, 199, 200, 201, 299, 300, 301, 499, 500, 501, Milli},
        ch \in {0, 2000 * Milli},
        db \in {400, INF}}

CollapseCalls ==
    {[function |-> "_get_collapse_strategy", avg_contradiction |-> c, driver_profile |-> p] :
        c \in {Raw(5), Raw(6), Raw(7), Raw(Scale)},
        p \in {Dist(7, 0, 0, 0, 0, 3), Dist(8, 0, 0, 0, 0, 2), Dist(0, 2, 6, 2, 0, 0),
               Dist(4, 0, 0, 3, 3, 0), Dist(1, 1, 2, 2, 2, 2)}}

ChannelCalls ==
    {[function |-> "_get_messaging_channels", hash_seed |-> h,
      characteristics |-> [dominant_driver |-> x, avg_contradiction |-> c,
                           superposition_prevalence |-> q]] :
        h \in {0, 1},
        x \in {"Safety", "Connection", "Status"},
        c \in {Raw(3), Raw(5), Raw(6), Raw(7)},
        q \in {Fin(0, 1), Fin(20, 1), Fin(25, 1), Fin(30, 1), Fin(100, 3), Fin(100, 1)}}

OptimalKCalls ==
    {[function |-> "find_optimal_k", max_k |-> Len(f) + 1, method |-> m, fits |-> f] :
        m \in {"elbow", "silhouette", "gap"},
        f \in UNION {[1..n -> KFits] : n \in 1..(MaxK - 1)}}

\* k lists on MaxLabelRows rows; KMeans raises for a k above the number of rows
RangeCalls ==
    UNION {{[function |-> "cluster_kmeans_range", features |-> CompareFeatures,
             k_range |-> ks, fits |-> f] :
               f \in {g \in [1..Len(ks) -> {FitRaises} \cup
                                 {FitLabels(CyclicLabels(MaxLabelRows, k)) : k \in 2..3}] :
                         \A i \in 1..Len(ks) : g[i] \in PartitionFits(MaxLabelRows, ks[i])}} :
           ks \in {<<2, 3>>, <<3, 2>>, <<2, MaxLabelRows + 1, 3>>, <<MaxLabelRows + 1, 2>>}}

\* rows on a line, in tenths; eps = 0.15 reaches the rows 0.1 away
DbscanRows ==
    {<<0, 1, 2>>, <<0, 1, 5>>, <<0, 0, 1, 1>>, <<0, 1, 2, 3>>, <<0, 3, 6>>,
     <<0, 0, 1, 2, 3, 4, 4>>}
DbscanCalls ==
    {[function |-> "cluster_dbscan", features |-> [i \in 1..Len(rows) |-> <<Raw(rows[i])>>],
      eps |-> 150, min_samples |-> m] : rows \in DbscanRows, m \in 1..4}

Calls ==
    DbscanCalls \cup RangeCalls \cup OptimalKCalls \cup NameCalls \cup QualityCalls \cup ClusterCalls \cup InterpretCalls \cup CollapseCalls
    \cup ChannelCalls

InitCalls ==
    /\ call \in Calls
    /\ call_result = NoOutcome
    /\ kmeans = NoFit
    /\ actors = <<>>
    /\ IdlePrepare /\ IdleAssign /\ IdleCharacterize /\ IdleMain

Called(function) == call.function = function /\ call_result.status = "ok"

GenerateCohortName ==
    /\ call.function = "_generate_cohort_name" /\ call_result.status = "none"
    /\ call_result' = Ok(_generate_cohort_name(call.driver_profile, call.characteristics))
    /\ UNCHANGED <<kmeans, call, actors, prepareVars, assignVars, characterizeVars, mainVars>>

ValidateAssignmentQuality ==
    /\ call.function = "validate_assignment_quality" /\ call_result.status = "none"
    /\ call_result' = Ok(validate_assignment_quality(call.assignments))
    /\ UNCHANGED <<kmeans, call, actors, prepareVars, assignVars, characterizeVars, mainVars>>

\* one of the cluster_* functions of algorithms.py on a feature matrix
ClusterFeatures ==
    /\ call.function = "cluster" /\ call_result.status = "none"
    /\ call_result' =
          CASE call.algorithm = "kmeans" ->
                   cluster_kmeans(call.features, call.n_clusters, call.fit)
            [] call.algorithm = "hierarchical" ->
                   cluster_hierarchical(call.features, call.n_clusters, call.fit)
            [] call.algorithm = "gmm" ->
                   cluster_gaussian_mixture(call.features, call.n_clusters, call.fit)
            [] call.algorithm = "spectral" ->
                   cluster_spectral(call.features, call.n_clusters, call.fit)
            [] call.algorithm = "dbscan" -> cluster_dbscan(call.features, call.fit)
    /\ UNCHANGED <<kmeans, call, actors, prepareVars, assignVars, characterizeVars, mainVars>>

InterpretClusteringQuality ==
    /\ call.function = "_interpret_clustering_quality" /\ call_result.status = "none"
    /\ call_result' = Ok(_interpret_clustering_quality(call.metrics))
    /\ UNCHANGED <<kmeans, call, actors, prepareVars, assignVars, characterizeVars, mainVars>>

GetCollapseStrategy ==
    /\ call.function = "_get_collapse_strategy" /\ call_result.status = "none"
    /\ call_result' = Ok(_get_collapse_strategy(call.avg_contradiction, call.driver_profile))
    /\ UNCHANGED <<kmeans, call, actors, prepareVars, assignVars, characterizeVars, mainVars>>

GetMessagingChannels ==
    /\ call.function = "_get_messaging_channels" /\ call_result.status = "none"
    /\ call_result' = Ok(_get_messaging_channels(call.characteristics, call.hash_seed))
    /\ UNCHANGED <<kmeans, call, actors, prepareVars, assignVars, characterizeVars, mainVars>>

FindOptimalK ==
    /\ call.function = "find_optimal_k" /\ call_result.status = "none"
    /\ call_result' = find_optimal_k(call.max_k, call.method, call.fits)
    /\ UNCHANGED <<kmeans, call, actors, prepareVars, assignVars, characterizeVars, mainVars>>

ClusterKMeansRange ==
    /\ call.function = "cluster_kmeans_range" /\ call_result.status = "none"
    /\ call_result' = Ok(cluster_kmeans_range(call.features, call.k_range, call.fits))
    /\ UNCHANGED <<kmeans, call, actors, prepareVars, assignVars, characterizeVars, mainVars>>

ClusterDbscan ==
    /\ call.function = "cluster_dbscan" /\ call_result.status = "none"
    /\ call_result' = Ok(cluster_dbscan_fit(call.features, call.eps, call.min_samples))
    /\ UNCHANGED <<kmeans, call, actors, prepareVars, assignVars, characterizeVars, mainVars>>

NextCalls ==
    \/ ClusterDbscan
    \/ ClusterKMeansRange
    \/ FindOptimalK
    \/ GetMessagingChannels
    \/ GetCollapseStrategy
    \/ InterpretClusteringQuality
    \/ GenerateCohortName
    \/ ValidateAssignmentQuality
    \/ ClusterFeatures

SpecCalls == InitCalls /\ [][NextCalls]_vars

\* C16: the cohort name follows the first rule that applies: average
\* contradiction above 0.6 gives "High-Contradiction {driver}", else a
\* dominant-driver mean above 0.7 gives "{driver}-Focused", else a
\* superposition prevalence above 30% gives "Quantum {driver}", else
\* "Balanced {driver}"; a value equal to its threshold does not trigger.
C16_CohortNameRules ==
    Called("_generate_cohort_name") =>
        LET p == call.driver_profile
            top == CHOOSE x \in DriverSet :
                      \A y \in DriverSet : p[y].n * p[x].d <= p[x].n * p[y].d
            c == call.characteristics.avg_contradiction
            q == call.characteristics.superposition_prevalence
        IN  call_result.value =
                (IF 10 * c.n > 6 * c.d THEN "High-Contradiction " \o top
                 ELSE IF 10 * p[top].n > 7 * p[top].d THEN top \o "-Focused"
                 ELSE IF q.n > 30 * q.d THEN "Quantum " \o top
                 ELSE "Balanced " \o top)

\* contradiction and dominant mean exactly at their thresholds: the third
\* rule decides
C16_Witness ==
    /\ Called("_generate_cohort_name")
    /\ FEq(call.characteristics.avg_contradiction, Fin(6, 10))
    /\ FEq(call.driver_profile["Safety"], Fin(7, 10))
    /\ call_result.value = "Quantum Safety"

\* C20: the quality report of a non-empty batch counts every confidence in
\* exactly one of the buckets high (> 0.7), medium (0.4 to 0.7 inclusive)
\* and low (< 0.4), so the counts sum to the number of assignments;
\* success_rate is the fraction of assignments with a cohort; quality_score
\* is 0.6 * success_rate + 0.4 * mean confidence and lies in [0, 1].
C20_QualityReport ==
    (Called("validate_assignment_quality") /\ Len(call.assignments) > 0) =>
        LET a == call.assignments
            n == Len(a)
            r == call_result.value
            d == r.confidence_distribution
            ok == Cardinality({i \in 1..n : a[i].assigned_cohort_id # NONE})
            total == SumSeq([i \in 1..n |-> a[i].confidence])
        IN  /\ r.error = "none"
            /\ d.high + d.medium + d.low = n
            /\ d.high = Cardinality({i \in 1..n : a[i].confidence > 700})
            /\ d.low = Cardinality({i \in 1..n : a[i].confidence < 400})
            /\ r.success_rate.n * n = ok * r.success_rate.d
            /\ r.quality_score.n * (10 * Milli * n)
                  = (6 * ok * Milli + 4 * total) * r.quality_score.d
            /\ r.quality_score.n >= 0
            /\ r.quality_score.n <= r.quality_score.d

\* a batch holding a failed assignment and confidences at both bucket limits
C20_Witness ==
    /\ Called("validate_assignment_quality")
    /\ Len(call.assignments) = 2
    /\ call.assignments[1].confidence = 400 /\ call.assignments[2].confidence = 700
    /\ call.assignments[1].assigned_cohort_id = NONE
    /\ call_result.value.confidence_distribution.medium = 2

\* ============================================== clustering a shuffled actor list
\* A caller prepares and clusters an actor list with cluster_kmeans, shuffles
\* the list and does it again with the same parameters and seed.
\* KMeans(random_state=42).fit_predict works on the rows in the order given:
\* k-means++ draws its first center by row index and the following ones from
\* the squared distances of the rows to the centers chosen.  What the model
\* takes from the estimator: rows with equal features get equal labels, as
\* many labels occur as the rows allow, the labels returned are settled
\* (every row carries the label of its nearest cluster mean), and with a fixed
\* seed the labels are a function of the pairwise distances of the rows, in
\* row order.  numpy's rounding of the standard deviation of a constant
\* column does not depend on the order of its equal values, so the second
\* preparation rounds as the first did.

KMeansFits(matrix, k) ==
    LET n == Len(matrix)
        rows == {matrix[i] : i \in 1..n}
        want == Min(k, Cardinality(rows))
        milli == [i \in 1..n |-> [j \in 1..Len(matrix[i]) |-> ToMilli(matrix[i][j])]]
        centers(l) ==
            [c \in 0..(want - 1) |->
                LET m == Members(l, c, 1)
                IN  [j \in 1..Len(matrix[1]) |->
                        SumSeq([r \in 1..Len(m) |-> milli[m[r]][j]]) \div Len(m)]]
        sq(x, y) == SumSeq([j \in 1..Len(x) |-> (x[j] - y[j]) * (x[j] - y[j])])
        \* every row carries the first of its nearest centers, as the
        \* assignment step picks it
        settled(l) ==
            LET cs == centers(l)
                d == [i \in 1..n |-> [c \in 0..(want - 1) |-> sq(milli[i], cs[c])]]
            IN  \A i \in 1..n :
                    \A e \in 0..(want - 1) :
                        d[i][l[i]] < d[i][e] \/ (d[i][l[i]] = d[i][e] /\ l[i] <= e)
    IN  {FitLabels(l) :
            l \in {ll \in {[i \in 1..n |-> g[matrix[i]]] : g \in [rows -> 0..(want - 1)]} :
                      Unique(ll) = 0..(want - 1) /\ settled(ll)}}

SameDistances(m1, m2) ==
    /\ Len(m1) = Len(m2)
    /\ \A i, j \in 1..Len(m1) : Euclid(m1[i], m1[j]) = Euclid(m2[i], m2[j])

\* actors that differ in coherence only: a of them at 0.0, b at 0.5, c at 1.0
GroupedActors(a, b, c) ==
    [i \in 1..(a + b + c) |->
        Actor(i, Profile(Dist(4, 0, 0, 3, 3, 0), Raw(5), FALSE,
                         IF i <= a THEN Raw(0) ELSE IF i <= a + b THEN Raw(5) ELSE Raw(Scale)))]

InitShuffle ==
    /\ IdleCall
    /\ \E a \in 1..MaxCohorts, b \in 1..MaxCohorts, c \in 1..MaxCohorts :
          /\ a + b + c \in MIN_ACTORS..MaxActors
          /\ actors = GroupedActors(a, b, c)
    /\ driver = "shuffle" /\ pc = "cluster"
    /\ args = [algorithm |-> "kmeans", n_clusters |-> 2]
    /\ results = <<>> /\ invoked = <<>> /\ comparison = NoOutcome
    /\ best_result = NoOutcome /\ validation_report = NoOutcome /\ saved = NoOutcome
    /\ failure = "none"
    /\ IdlePrepare /\ IdleAssign /\ IdleCharacterize

\* prepare_feature_matrix(actors, feature_config), then
\* cluster_kmeans(features, n_clusters) on the result
PrepareAndCluster ==
    /\ driver = "shuffle" /\ pc = "cluster"
    /\ \E rounds \in BOOLEAN :
          \E outcome \in {prepare_feature_matrix(actors, feature_config, rounds)} :
              /\ (Len(results) > 0 /\ outcome.status = "ok") =>
                     \A j \in 1..Len(outcome.value.feature_names) :
                         {outcome.value.features[i][j] : i \in 1..Len(actors)}
                             = {prepared.value.features[i][j] : i \in 1..Len(actors)}
              /\ prepared' = outcome
              /\ IF outcome.status = "raised"
                 THEN Fail(outcome.error) /\ UNCHANGED <<results, invoked, best_result>>
                 ELSE \E fit \in KMeansFits(outcome.value.features, args.n_clusters) :
                         /\ \A i \in 1..Len(results) :
                               SameDistances(results[i].features, outcome.value.features)
                                   => fit.labels = results[i].labels
                         /\ best_result' = cluster_kmeans(outcome.value.features,
                                                          args.n_clusters, fit)
                         /\ results' = Append(results,
                                [best_result'.value EXCEPT
                                    !.features = outcome.value.features,
                                    !.parameters = outcome.value.actor_ids])
                         /\ invoked' = Append(invoked, "kmeans")
                         /\ pc' = IF Len(results) = 0 THEN "shuffle" ELSE "done"
                         /\ UNCHANGED failure
    /\ UNCHANGED <<kmeans, call, call_result, actors, feature_config, assignVars, characterizeVars,
                   driver, args, comparison, validation_report, saved>>

\* the caller reorders the actor list: reversed, or rotated by one
ShuffleActors ==
    /\ driver = "shuffle" /\ pc = "shuffle"
    /\ \/ actors' = [i \in 1..Len(actors) |-> actors[Len(actors) + 1 - i]]
       \/ actors' = [i \in 1..Len(actors) |-> actors[(i % Len(actors)) + 1]]
    /\ pc' = "cluster"
    /\ UNCHANGED <<kmeans, call, call_result, prepareVars, assignVars, characterizeVars, driver, args,
                   results, invoked, comparison, best_result, validation_report, saved,
                   failure>>

NextShuffle ==
    \/ PrepareAndCluster
    \/ ShuffleActors

SpecShuffle == InitShuffle /\ [][NextShuffle]_vars

\* C18: clustering the shuffled actor list with the same parameters and seed
\* gives the same set of member-id sets: the labels may be permuted, which
\* actors share a cluster may not.
C18_ShuffleKeepsMembership ==
    (driver = "shuffle" /\ Len(results) = 2) =>
        LET members(r) ==
                {{r.parameters[i] : i \in {j \in 1..Len(r.labels) : r.labels[j] = l}} :
                    l \in Unique(r.labels)}
        IN  members(results[1]) = members(results[2])

C21_BucketFromSilhouette ==
    Called("_interpret_clustering_quality") =>
        LET sil == call.metrics.silhouette_score
        IN  call_result.value =
                (CASE sil > 500 -> "excellent"
                   [] sil > 300 /\ sil <= 500 -> "good"
                   [] sil > 200 /\ sil <= 300 -> "fair"
                   [] sil <= 200 -> "poor")
C21_Witness ==
    /\ Called("_interpret_clustering_quality")
    /\ call.metrics.silhouette_score = 500
    /\ call_result.value = "good"

\* C22: when the full run completes, every actor of the clustered population
\* that belongs to a cohort (its label is not -1) has an assignment whose
\* cohort identifier is set and names a cohort of this run, and as many
\* assignments were stored as there are such actors.
C22_RunAssignsEveryMember ==
    (driver = "main" /\ pc = "done") =>
        LET members == {i \in 1..Len(actors) : best_result.value.labels[i] # -1}
        IN  /\ \A i \in members :
                  \E a \in 1..Len(assignments.value) :
                      /\ assignments.value[a].actor_id = actors[i].actor_id
                      /\ assignments.value[a].assigned_cohort_id # NONE
                      /\ \E c \in 1..Len(cohorts.value) :
                            cohorts.value[c].cohort_id = assignments.value[a].assigned_cohort_id
            /\ saved.value.saved_assignments = Cardinality(members)

\* C23: the conflict-resolution note names the two drivers with the highest
\* mean values exactly when the average contradiction exceeds 0.6; at 0.6 or
\* below the note says that no special strategy is needed.
C23_CollapseNote ==
    Called("_get_collapse_strategy") =>
        LET p == call.driver_profile
            first == DominantDriver(p)
            rest == {x \in DriverSet : x # first}
            second == Drivers[CHOOSE i \in 1..Len(Drivers) :
                          /\ Drivers[i] \in rest
                          /\ \A x \in rest : ~FLt(p[Drivers[i]], p[x])
                          /\ \A j \in 1..(i - 1) :
                                Drivers[j] \in rest => FLt(p[Drivers[j]], p[Drivers[i]])]
        IN  IF FLt(Fin(6, 10), call.avg_contradiction)
            THEN call_result.value = "Address tension between " \o first \o " and " \o second
                                         \o " through integrated messaging"
            ELSE call_result.value = "No special strategy needed - low contradiction"

\* C24: the channel list always holds Email and Website and repeats nothing;
\* Social Media and Mobile App are in it when the quantum prevalence is high
\* (above 30%), Personal Consultation and Phone are in it when the average
\* contradiction is high (above 0.6) and in no other case.
C24_Channels ==
    Called("_get_messaging_channels") =>
        LET channels == call_result.value
            listed == {channels[i] : i \in 1..Len(channels)}
            high_contradiction == FLt(Fin(6, 10), call.characteristics.avg_contradiction)
            high_prevalence == FLt(Fin(30, 1), call.characteristics.superposition_prevalence)
        IN  /\ {"Email", "Website"} \subseteq listed
            /\ Cardinality(listed) = Len(channels)
            /\ high_prevalence => {"Social Media", "Mobile App"} \subseteq listed
            /\ "Personal Consultation" \in listed <=> high_contradiction
            /\ "Phone" \in listed <=> high_contradiction

\* C25: a candidate k whose computation fails does not end the best-k
\* search: find_optimal_k returns a k of 2..max_k, and when at least one
\* candidate succeeded the k returned is one of those that succeeded.
C25_BestKSkipsFailures ==
    (call.function = "find_optimal_k" /\ call_result.status # "none") =>
        /\ call_result.status = "ok"
        /\ call_result.value \in 2..call.max_k
        /\ (\E i \in 1..Len(call.fits) : ~call.fits[i].raised)
              => ~call.fits[call_result.value - 1].raised

C27_DensityClusters ==
    Called("cluster_dbscan") =>
        LET r == call_result.value
            n == Len(call.features)
            near(i, j) == Euclid(call.features[i], call.features[j]) <= call.eps
            core == {i \in 1..n :
                        Cardinality({j \in 1..n : j # i /\ near(i, j)}) >= call.min_samples}
        IN  /\ r.core_sample_indices = {i - 1 : i \in core}
            /\ \A i \in core : \A j \in 1..n : near(i, j) => r.labels[j] = r.labels[i]
            /\ \A j \in 1..n : r.labels[j] = -1 <=> ~\E i \in core : near(i, j)
            /\ r.n_clusters = Cardinality(Unique(r.labels) \ {-1})
            /\ r.n_outliers = Cardinality({j \in 1..n : r.labels[j] = -1})
            /\ r.n_core_samples = Cardinality(r.core_sample_indices)

\* C27: a point is a core point exactly when at least minPts points, itself
\* included, lie within eps of it; core points within eps of each other share
\* a label; a point that is not a core point carries -1 or the label of a
\* core point within eps of it, and -1 exactly when no core point is within
\* eps; the cluster count, the noise count and the core-point indices agree
\* with the labels.
C27_DensityClustersCountingSelf ==
    Called("cluster_dbscan") =>
        LET r == call_result.value
            n == Len(call.features)
            near(i, j) == Euclid(call.features[i], call.features[j]) <= call.eps
            core == {i \in 1..n :
                        Cardinality({j \in 1..n : near(i, j)}) >= call.min_samples}
        IN  /\ r.core_sample_indices = {i - 1 : i \in core}
            /\ \A i \in core : \A j \in core : near(i, j) => r.labels[j] = r.labels[i]
            /\ \A j \in (1..n) \ core :
                  \/ r.labels[j] = -1
                  \/ \E i \in core : near(i, j) /\ r.labels[i] = r.labels[j]
            /\ \A j \in 1..n : r.labels[j] = -1 <=> ~\E i \in core : near(i, j)
            /\ r.n_clusters = Cardinality(Unique(r.labels) \ {-1})
            /\ r.n_outliers = Cardinality({j \in 1..n : r.labels[j] = -1})
            /\ r.n_core_samples = Cardinality(r.core_sample_indices)
C27_Witness ==
    /\ Called("cluster_dbscan")
    /\ call_result.value.n_clusters = 1
    /\ call_result.value.n_outliers = 1
    /\ call_result.value.n_core_samples = 2


\* ======================================== algorithms.py, the K-Means estimator
\* cluster_kmeans builds KMeans(n_clusters, random_state, n_init=10,
\* max_iter=300) and calls fit_predict.  The estimator is scikit-learn's; what
\* follows is Lloyd's algorithm as the library documents it, with the two
\* parameters the code passes.  Rows are one-dimensional integers; centroids
\* and inertia are exact, in units of 1/Unit and 1/Unit^2 (every cluster size
\* up to 6 divides Unit).  The library's tolerance test on the centroid shift
\* is left out: on exact data it fires only when the centroids did not move.

N_INIT == 10
MAX_ITER == 300
Unit == 60

KMeansRows == {<<0, 1, 2, 9, 10>>, <<0, 1, 5, 6>>}
KMeansK == {2, 3}

SquaredDistance(x, centre) == (Unit * x - centre) * (Unit * x - centre)

\* numpy argmin over the centroids: the first of the nearest, 0-based
Nearest(x, centres) ==
    CHOOSE c \in 1..Len(centres) :
        /\ \A o \in 1..Len(centres) :
              SquaredDistance(x, centres[c]) <= SquaredDistance(x, centres[o])
        /\ \A o \in 1..(c - 1) :
              SquaredDistance(x, centres[o]) > SquaredDistance(x, centres[c])

EStep(rows, centres) == [i \in 1..Len(rows) |-> Nearest(rows[i], centres) - 1]

\* the mean of each cluster's rows; a cluster without rows keeps its centroid
MStep(rows, lab, centres) ==
    [c \in 1..Len(centres) |->
        LET members == {i \in 1..Len(rows) : lab[i] = c - 1}
        IN  IF members = {} THEN centres[c]
            ELSE (Unit * SumSeq([i \in 1..Len(rows) |->
                                    IF i \in members THEN rows[i] ELSE 0]))
                     \div Cardinality(members)]

Inertia(rows, lab, centres) ==
    SumSeq([i \in 1..Len(rows) |-> SquaredDistance(rows[i], centres[lab[i] + 1])])

\* the run kept among the initializations: the latest one, whatever its inertia
BestOfRuns_Latest(best, run) == run

\* the run kept among the initializations: a run replaces the best only with
\* a strictly lower inertia
BestOfRuns(best, run) ==
    IF best = NoFit \/ run.inertia < best.inertia THEN run ELSE best

RECURSIVE Ascending(_)
Ascending(values) ==
    IF values = {} THEN <<>>
    ELSE LET least == CHOOSE v \in values : \A o \in values : v <= o
         IN  <<least>> \o Ascending(values \ {least})

\* the starting centroids an initialization may draw: n_clusters distinct rows
Seeds(rows, n_clusters) ==
    {[c \in 1..n_clusters |-> Unit * Ascending(seeds)[c]] :
        seeds \in {chosen \in SUBSET {rows[i] : i \in 1..Len(rows)} :
                      Cardinality(chosen) = n_clusters}}

InitKMeans ==
    /\ kmeans \in {[stage |-> "init", rows |-> rows, n_clusters |-> k, run |-> 0,
                    n_iter |-> 0, centres |-> <<>>, labels |-> <<>>,
                    inertia |-> NONE, best |-> NoFit, inertias |-> {}] :
                       rows \in KMeansRows, k \in KMeansK}
    /\ call = NoCall /\ call_result = NoOutcome
    /\ actors = <<>>
    /\ IdlePrepare /\ IdleAssign /\ IdleCharacterize /\ IdleMain

\* one initialization starts: n_clusters distinct rows become the centroids
KMeansInitCentroids ==
    /\ kmeans.stage = "init" /\ kmeans.run < N_INIT
    /\ \E centres \in Seeds(kmeans.rows, kmeans.n_clusters) :
          kmeans' = [kmeans EXCEPT !.stage = "iterate", !.n_iter = 0,
                           !.centres = centres,
                           !.labels = <<>>, !.inertia = NONE]
    /\ UNCHANGED <<call, call_result, actors, prepareVars, assignVars,
                   characterizeVars, mainVars>>

\* one iteration: label every row by its nearest centroid, stop when the
\* labels are those of the iteration before, else move the centroids to the
\* means; the iteration that reaches max_iter labels the rows once more
LloydIteration ==
    /\ kmeans.stage = "iterate" /\ kmeans.n_iter < MAX_ITER
    /\ LET lab == EStep(kmeans.rows, kmeans.centres)
           moved == MStep(kmeans.rows, lab, kmeans.centres)
       IN  IF lab = kmeans.labels
           THEN kmeans' = [kmeans EXCEPT !.stage = "converged",
                              !.inertia = Inertia(kmeans.rows, lab, kmeans.centres)]
           ELSE IF kmeans.n_iter + 1 = MAX_ITER
           THEN kmeans' = [kmeans EXCEPT !.stage = "converged",
                              !.n_iter = MAX_ITER, !.centres = moved,
                              !.labels = EStep(kmeans.rows, moved),
                              !.inertia = Inertia(kmeans.rows,
                                                  EStep(kmeans.rows, moved), moved)]
           ELSE kmeans' = [kmeans EXCEPT !.n_iter = kmeans.n_iter + 1,
                              !.centres = moved, !.labels = lab,
                              !.inertia = Inertia(kmeans.rows, lab, kmeans.centres)]
    /\ UNCHANGED <<call, call_result, actors, prepareVars, assignVars,
                   characterizeVars, mainVars>>

\* an initialization has ended: it is compared with the best one so far
KeepBestRun ==
    /\ kmeans.stage = "converged"
    /\ kmeans' = [kmeans EXCEPT
                     !.stage = IF kmeans.run + 1 = N_INIT THEN "done" ELSE "init",
                     !.run = kmeans.run + 1,
                     !.best = BestOfRuns(kmeans.best,
                                         [labels |-> kmeans.labels,
                                          centres |-> kmeans.centres,
                                          inertia |-> kmeans.inertia,
                                          n_iter |-> kmeans.n_iter]),
                     !.inertias = kmeans.inertias \cup {kmeans.inertia}]
    /\ UNCHANGED <<call, call_result, actors, prepareVars, assignVars,
                   characterizeVars, mainVars>>

NextKMeans == KMeansInitCentroids \/ LloydIteration \/ KeepBestRun

\* the estimator runs to the end: no step that is possible is put off forever
SpecKMeans == InitKMeans /\ [][NextKMeans]_vars /\ WF_vars(NextKMeans)

NamesOf(dominant_driver) ==
    {"High-Contradiction " \o dominant_driver, dominant_driver \o "-Focused",
     "Quantum " \o dominant_driver, "Balanced " \o dominant_driver}

\* C29: in every cohort the driver in cohort_name and the one in
\* messaging_strategy.dominant_driver are characteristics.dominant_driver, the
\* most frequent dominant driver among the members.
C29_OneDominantDriver ==
    Characterized =>
        \A i \in 1..Len(cohorts.value) :
            LET cohort == cohorts.value[i]
            IN  /\ cohort.messaging_strategy.dominant_driver
                       = cohort.characteristics.dominant_driver
                /\ cohort.cohort_name \in NamesOf(cohort.characteristics.dominant_driver)


\* C30: for every label vector, noise included, the validation report's
\* n_clusters is the number of distinct labels other than -1, cluster_sizes
\* has one entry per such label, the number of rows carrying it (so no entry
\* is 0), and the cluster sizes and n_outliers add up to the number of rows.
C30_ReportCountsNonNoiseClusters ==
    (driver = "compare" /\ pc = "validated") =>
        LET clusters == Unique(labels) \ {-1}
            sizes == validation_report.cluster_sizes
        IN  /\ validation_report.n_clusters = Cardinality(clusters)
            /\ Len(sizes) = Cardinality(clusters)
            /\ \A l \in clusters :
                  \E i \in 1..Len(sizes) : sizes[i] = CountLabel(labels, l)
            /\ \A i \in 1..Len(sizes) : sizes[i] >= 1
            /\ SumSeq(sizes) + validation_report.n_outliers = Len(labels)

====
